---- MODULE Spec2Model ----
(***************************************************************************)
(* A model of the poly-bot leader-discovery scripts:                       *)
(*   - the watermark ("last seen timestamp") logic of copy_trader.py,      *)
(*     leader_finder_v4.py and trade_collector.py,                         *)
(*   - the whale / qualified-trader cascade of leader_finder_v2.py and     *)
(*     leader_finder_v4.py,                                                *)
(*   - the 24h window filter of leader_finder_v3.py / leader_finder_v4.py, *)
(*   - the LruSeen deduplicator of trade_collector_rtds.py,                *)
(*   - the paginated fetch and aggregation of leader_finder_v2.py.         *)
(* Each script is a separate process with its own state; one              *)
(* specification per component keeps the others at their initial state.   *)
(***************************************************************************)
EXTENDS Integers, Sequences, FiniteSets, TLC

VARIABLES
    \* ---- watermark component ----
    prog,             \* which script is running: "copy_trader", "v4", "collector"
    last_seen,        \* copy_trader.py: in-memory dict  leader -> timestamp
    state_file,       \* copy_trader.py: content of STATE_FILE (leaders_state.json)
    copied_file,      \* leader_finder_v4.py: content of STATE_COPIED
    last_seen_ts,     \* trade_collector.py: module global
    calls,            \* the diff calls of the last handler run
    emitCnt,          \* trade id -> number of times it was emitted (capped at 2)
    scn,              \* progress of the T1/T2/T3 scenario for wallet ScnWallet
    crashed,          \* TRUE once the process was killed and restarted
    \* ---- tier classifier ----
    wallets,          \* the aggregated stats, in dict insertion order
    v2_out,           \* leader_finder_v2.main(): stages run, leaders, report
    v4_out,           \* leader_finder_v4.select_leaders(): mode, leaders
    \* ---- trade log and 24h window ----
    log,              \* state/trades_log.jsonl: the lines of the file
    win,              \* the last run of leader_finder_v3 / v4 over the log
    \* ---- trade_collector_rtds ----
    seen_dq,          \* LruSeen._dq: the tokens kept, oldest first
    seen_set,         \* LruSeen._set
    run_from,         \* length of the log when the running collector started
    last_msg,         \* the last message handled and what became of it
    \* ---- leader_finder_v2: paginated fetch ----
    feed,             \* the Data API: the trades it holds, whether it sorts
    pc_fetch,         \* where main() of leader_finder_v2 stands
    collected,        \* fetch_trades_global_24h: collected
    offset,           \* fetch_trades_global_24h: offset
    use_sort,         \* fetch_trades_global_24h: use_sort
    active_meta,      \* main: the conditionIds build_active_meta() found active
    \* ---- leader_finder_v4: processes started side by side ----
    runs,             \* per process: where main() stands and its local variables
    \* ---- trade_collector_rtds: RTDSTradeCollector.run_forever ----
    c_pc,             \* where run_forever() stands
    backoff,          \* run_forever: backoff, in seconds
    waited,           \* the seconds of the last time.sleep(backoff)
    stop_requested,   \* GracefulKiller._stop
    connected,        \* RTDSTradeCollector._connected
    sent,             \* what was sent on the current WebSocketApp
    ping_pc,          \* where the ping-loop thread stands
    \* ---- leader_finder_v4 reading the log while it is appended to ----
    rd,               \* load_recent_trades(): where it stands in the file
    \* ---- LruSeen.add_if_new called from two threads ----
    thr,              \* per thread: where its call of add_if_new() stands
    lock              \* LruSeen._lock: the thread that holds it, or "free"

wmVars == <<prog, last_seen, state_file, copied_file, last_seen_ts, calls,
            emitCnt, scn, crashed>>

tierVars == <<wallets, v2_out, v4_out>>

winVars == <<log, win>>

rtdsVars == <<seen_dq, seen_set, run_from, last_msg>>

fetchVars == <<feed, pc_fetch, collected, offset, use_sort, active_meta>>

connVars == <<c_pc, backoff, waited, stop_requested, connected, sent, ping_pc>>

\* the processes and threads that run side by side
snapVars == <<rd>>

thrVars == <<thr, lock>>

runVars == <<runs, connVars, snapVars, thrVars>>

vars == <<wmVars, tierVars, winVars, rtdsVars, fetchVars, runVars>>

\* what the actions of one component leave alone
notWM == <<tierVars, winVars, rtdsVars, fetchVars, runVars>>
notTier == <<wmVars, winVars, rtdsVars, fetchVars, runVars>>
notWin == <<wmVars, tierVars, rtdsVars, fetchVars, runVars>>
notRtds == <<wmVars, tierVars, fetchVars, runVars>>
notFetch == <<wmVars, winVars, rtdsVars, runVars>>

(***************************************************************************)
(* Bounds                                                                  *)
(***************************************************************************)
MaxBatch == 2          \* longest list of trades one request / one log returns
MaxWallets == 2        \* most wallets in one aggregation
MaxLog == 3            \* most lines in the trade log
DedupMax == 2          \* dedup_max, the capacity of LruSeen (50000 in the code)
MaxRanked == 12        \* most wallets of one tier in one aggregation

(***************************************************************************)
(* Generic helpers                                                         *)
(***************************************************************************)
\* dict.get(k, 0)
Get(m, k) == IF k \in DOMAIN m THEN m[k] ELSE 0

\* m[k] = v
Put(m, k, v) == [x \in (DOMAIN m) \cup {k} |-> IF x = k THEN v ELSE m[x]]

EmptyMap == [x \in {} |-> 0]

Range(s) == {s[i] : i \in 1..Len(s)}

\* all sequences of pairwise distinct elements of S, of length at most n
RECURSIVE DistinctSeqs(_, _)
DistinctSeqs(S, n) ==
    IF n = 0 THEN {<<>>}
    ELSE LET shorter == DistinctSeqs(S, n - 1)
         IN  shorter \cup
             {Append(p[1], p[2]) : p \in {q \in shorter \X S : q[2] \notin Range(q[1])}}

(***************************************************************************)
(* WATERMARK COMPONENT                                                     *)
(* copy_trader.py, leader_finder_v4.py (find_copy_candidates) and          *)
(* trade_collector.py each keep a "last timestamp already delivered".      *)
(***************************************************************************)

\* copy_trader.py LEADERS (two leaders here, one of them in mixed case)
LEADERS == <<"0xA", "0xb">>

\* str.lower() on the addresses used here
Lower(s) == IF s = "0xA" THEN "0xa" ELSE s

Wallets == {"0xa", "0xb"}

\* the trades the exchange may report
WMTrades ==
    { [id |-> "T1", proxyWallet |-> "0xa", timestamp |-> 10],
      [id |-> "T2", proxyWallet |-> "0xa", timestamp |-> 20],
      [id |-> "T3", proxyWallet |-> "0xa", timestamp |-> 15],
      [id |-> "T4", proxyWallet |-> "0xa", timestamp |-> 10],
      [id |-> "T5", proxyWallet |-> "0xb", timestamp |-> 15] }

WMIds == {t.id : t \in WMTrades}

TradeById(i) == CHOOSE t \in WMTrades : t.id = i

\* what the Data-API may answer to fetch_trades(user): the user's trades only
BatchesOf(w) == DistinctSeqs({t \in WMTrades : t.proxyWallet = w}, MaxBatch)

Programs == {"copy_trader", "v4", "collector"}

\* the key under which a program's diff is recorded: a wallet, or "*" for
\* the global watermark of trade_collector.py
GlobalKey == "*"

Call(w, before, batch, out, after) ==
    [wallet |-> w, before |-> before, batch |-> batch, out |-> out, after |-> after]

\* ---- copy_trader.py ----------------------------------------------------

\* float(t.get("timestamp", 0)), 0 when the field is missing or not a number
\* (a record without the field models both)
TsNumeric(t) == IF "timestamp" \in DOMAIN t THEN t.timestamp ELSE 0

\* a scan that lets a trade at the watermark through
RECURSIVE CTScanStale(_, _, _, _)
CTScanStale(trades, i, wm, out) ==
    IF i = 0 THEN [wm |-> wm, out |-> out]
    ELSE IF TsNumeric(trades[i]) < wm
         THEN CTScanStale(trades, i - 1, wm, out)
         ELSE CTScanStale(trades, i - 1, TsNumeric(trades[i]), Append(out, trades[i]))

\* the loop "for t in reversed(trades)" from index i down to 1
\* returns the watermark and the trades emitted, in the order emitted
RECURSIVE CTScan(_, _, _, _)
CTScan(trades, i, wm, out) ==
    IF i = 0 THEN [wm |-> wm, out |-> out]
    ELSE IF TsNumeric(trades[i]) <= wm
         THEN CTScan(trades, i - 1, wm, out)
         ELSE CTScan(trades, i - 1, TsNumeric(trades[i]), Append(out, trades[i]))

\* content of a state file that json.load() rejects: the file was truncated
\* by open(path, "w") or holds part of a dump
NotJson == [x \in {"<not json>"} |-> 0]

\* format_ts_italian() takes a timestamp above this for milliseconds
\* (1_000_000_000_000 in the code, on the scale of TS_SECONDS_BELOW)
TS_MILLIS_ABOVE == 1000000

\* format_ts_italian(): the instant, in ms, that copy_trader prints for a
\* numeric timestamp
format_ts_italian(ts) == IF ts > TS_MILLIS_ABOVE THEN ts ELSE ts * 1000

\* load_state(): the dict stored in the file; {} when the file is missing
\* (a missing file is the empty map here) or when json.load() raises
load_state(file) == IF file = NotJson THEN EmptyMap ELSE file

\* leader_finder_v4.load_json(path, {}): the default when the file is missing,
\* json.load() otherwise, whose exception is not caught
load_json(file) ==
    IF file = NotJson THEN [ok |-> FALSE, error |-> "JSONDecodeError"]
    ELSE [ok |-> TRUE, value |-> file]

\* an iteration that sets last_seen[la] = 0 whenever the fetch fails
CTLeaderResets(st, leader, fetched) ==
    LET la   == Lower(leader)
        mem0 == IF la \in DOMAIN st.mem THEN st.mem ELSE Put(st.mem, la, 0)
    IN  IF ~fetched.ok
        THEN [st EXCEPT !.mem = Put(st.mem, la, 0)]
        ELSE LET r    == CTScan(fetched.trades, Len(fetched.trades), mem0[la], <<>>)
                 mem1 == Put(mem0, la, r.wm)
             IN  [mem   |-> mem1,
                  file  |-> IF Len(r.out) > 0 THEN mem1 ELSE st.file,
                  calls |-> st.calls \cup
                            {Call(la, mem0[la], fetched.trades, r.out, r.wm)}]

\* one iteration of "for leader in LEADERS" with the answer of fetch_trades
\* st = [mem, file, calls]
CTLeader(st, leader, fetched) ==
    LET la   == Lower(leader)
        mem0 == IF la \in DOMAIN st.mem THEN st.mem ELSE Put(st.mem, la, 0)
    IN  IF ~fetched.ok
        THEN [st EXCEPT !.mem = mem0]
        ELSE LET r    == CTScan(fetched.trades, Len(fetched.trades), mem0[la], <<>>)
                 mem1 == Put(mem0, la, r.wm)
             IN  [mem   |-> mem1,
                  file  |-> IF Len(r.out) > 0 THEN mem1 ELSE st.file,
                  calls |-> st.calls \cup
                            {Call(la, mem0[la], fetched.trades, r.out, r.wm)}]

\* process_leader_trades(): the iterations for LEADERS[i..n], in order
RECURSIVE CTPass(_, _, _, _)
CTPass(st, i, n, fetched) ==
    IF i > n THEN st
    ELSE CTPass(CTLeader(st, LEADERS[i], fetched[LEADERS[i]]), i + 1, n, fetched)

FetchAnswers(leader) ==
    {[ok |-> FALSE, trades |-> <<>>]} \cup
    {[ok |-> TRUE, trades |-> b] : b \in BatchesOf(Lower(leader))}

\* ---- leader_finder_v4.py ------------------------------------------------

WINDOW_15M == 15 * 60

\* the instants (in ms) at which a v4 run may read the clock
V4Nows == {900000, 900012, 900030}

\* a find_copy_candidates without the 15-minute cutoff
RECURSIVE FindCopyCandidatesAnyAge(_, _, _, _, _, _)
FindCopyCandidatesAnyAge(trades, i, leaders, copied, nowMs, cands) ==
    IF i > Len(trades) THEN [copied |-> copied, candidates |-> cands]
    ELSE LET t == trades[i]
             w == t.proxyWallet
         IN  IF w \notin leaders \/ t.timestamp <= Get(copied, w)
             THEN FindCopyCandidatesAnyAge(trades, i + 1, leaders, copied, nowMs, cands)
             ELSE FindCopyCandidatesAnyAge(trades, i + 1, leaders,
                                          Put(copied, w, t.timestamp), nowMs,
                                          Append(cands, t))

\* find_copy_candidates(): the loop over trades[i..], threading copied_state
\* and the candidates; ts < cutoff_15m is ts_ms / 1000 < now - WINDOW_15M
RECURSIVE FindCopyCandidates(_, _, _, _, _, _)
FindCopyCandidates(trades, i, leaders, copied, nowMs, cands) ==
    IF i > Len(trades) THEN [copied |-> copied, candidates |-> cands]
    ELSE LET t == trades[i]
             w == t.proxyWallet
         IN  IF w \notin leaders
             THEN FindCopyCandidates(trades, i + 1, leaders, copied, nowMs, cands)
             ELSE IF t.timestamp < nowMs - WINDOW_15M * 1000
             THEN FindCopyCandidates(trades, i + 1, leaders, copied, nowMs, cands)
             ELSE IF t.timestamp <= Get(copied, w)
             THEN FindCopyCandidates(trades, i + 1, leaders, copied, nowMs, cands)
             ELSE FindCopyCandidates(trades, i + 1, leaders,
                                     Put(copied, w, t.timestamp), nowMs,
                                     Append(cands, t))

OfWallet(trades, w) == SelectSeq(trades, LAMBDA t : t.proxyWallet = w)

\* ---- trade_collector.py --------------------------------------------------

\* fetch_latest_trades(): the new trades and the new last_seen_ts
\* a fetch_latest_trades that moves last_seen_ts to the last new trade of the
\* response instead of the newest one
FetchLatestTradesLast(trades, lastSeen) ==
    LET new == SelectSeq(trades, LAMBDA t : TsNumeric(t) > lastSeen)
    IN  [new |-> new,
         lastSeen |-> IF Len(new) > 0 THEN TsNumeric(new[Len(new)]) ELSE lastSeen]

FetchLatestTrades(trades, lastSeen) ==
    LET new == SelectSeq(trades, LAMBDA t : TsNumeric(t) > lastSeen)
        top == CHOOSE m \in {TsNumeric(new[i]) : i \in 1..Len(new)} :
                   \A i \in 1..Len(new) : TsNumeric(new[i]) <= m
    IN  [new |-> new, lastSeen |-> IF Len(new) > 0 THEN top ELSE lastSeen]


(***************************************************************************)
(* Watermark component: observers, Init and actions                        *)
(***************************************************************************)

\* emitCnt after the trades of the sequences in outs were emitted
Bump(cnt, outs) ==
    [i \in WMIds |->
        LET n == cnt[i] + Cardinality({o \in outs : \E k \in 1..Len(o) : o[k].id = i})
        IN  IF n > 2 THEN 2 ELSE n]

Outs(cs) == {c.out : c \in cs}

\* the wallet whose calls the T1/T2/T3 scenario follows
ScnKey == IF prog = "collector" THEN GlobalKey ELSE "0xa"

ScnBatches == << <<TradeById("T1")>>, <<TradeById("T2")>>, <<TradeById("T3")>> >>

ScnOff == << [out |-> <<>>, wm |-> 0 - 1] >>

\* the scenario advances when the next call for ScnKey is fed the next
\* scenario batch, and is abandoned by any other call for ScnKey
ScnStep(s, cs) ==
    LET mine == {c \in cs : c.wallet = ScnKey}
    IN  IF mine = {} \/ s = ScnOff \/ Len(s) = 3 THEN s
        ELSE LET c == CHOOSE c \in mine : TRUE
             IN  IF c.batch = ScnBatches[Len(s) + 1]
                 THEN Append(s, [out |-> c.out, wm |-> c.after])
                 ELSE ScnOff

\* a call for ScnKey made outside the scenario's conditions abandons it
ScnAbandon(s, cs) ==
    IF {c \in cs : c.wallet = ScnKey} = {} \/ Len(s) = 3 THEN s ELSE ScnOff

\* the processes of leader_finder_v4.py that cron or an operator may start
RunIds == {"A", "B"}

\* a process that was not started yet
NoRun == [pc |-> "idle"]

\* the threads that may call LruSeen.add_if_new()
ThreadIds == {"t1", "t2"}

\* a thread that is not inside add_if_new()
NoCall == [pc |-> "idle"]

\* RTDSTradeCollector.__init__(): reconnect_min_s, reconnect_max_s
reconnect_min_s == 1
reconnect_max_s == 60

\* RTDSTradeCollector.__init__(): the stop flag and _connected are
\* clear,
\* run_forever() was not called yet
ConnIdle ==
    /\ c_pc = "idle"
    /\ backoff = reconnect_min_s
    /\ waited = 0
    /\ stop_requested = FALSE
    /\ connected = FALSE
    /\ sent = <<>>
    /\ ping_pc = "off"

WMZero ==
    /\ runs = [r \in RunIds |-> NoRun]
    /\ ConnIdle
    /\ rd = [pc |-> "idle"]
    /\ thr = [t \in ThreadIds |-> NoCall]
    /\ lock = "free"
    /\ last_seen = load_state(EmptyMap)
    /\ state_file = EmptyMap
    /\ copied_file = EmptyMap
    /\ last_seen_ts = 0
    /\ calls = {}
    /\ emitCnt = [i \in WMIds |-> 0]
    /\ scn = <<>>
    /\ crashed = FALSE

WMInit == prog \in Programs /\ WMZero

\* none of the three scripts is running
WMIdle == prog = "idle" /\ WMZero

\* copy_trader.py: one call of process_leader_trades()
ProcessLeaderTrades ==
    /\ prog = "copy_trader"
    /\ calls = {}
    /\ \E fetched \in [Range(LEADERS) -> UNION {FetchAnswers(l) : l \in Range(LEADERS)}] :
         /\ \A l \in Range(LEADERS) : fetched[l] \in FetchAnswers(l)
         /\ LET r == CTPass([mem |-> last_seen, file |-> state_file, calls |-> {}],
                            1, Len(LEADERS), fetched)
            IN  /\ last_seen' = r.mem
                /\ state_file' = r.file
                /\ calls' = r.calls
                /\ emitCnt' = Bump(emitCnt, Outs(r.calls))
                /\ scn' = ScnStep(scn, r.calls)
    /\ UNCHANGED <<prog, copied_file, last_seen_ts, crashed, notWM>>

\* leader_finder_v4.py: main(), from load_json(STATE_COPIED) to
\* save_json(STATE_COPIED); trades is the window read from the log and
\* leaders the wallets select_leaders() returned
V4Main ==
    /\ prog = "v4"
    /\ calls = {}
    /\ LET copied_state == load_json(copied_file)
       IN  IF ~copied_state.ok
           THEN /\ v4_out' = [stages |-> <<>>, error |-> copied_state.error]
                /\ UNCHANGED <<copied_file, calls, emitCnt, scn>>
           ELSE /\ \E trades \in DistinctSeqs(WMTrades, MaxBatch),
                      leaders \in SUBSET Wallets, nowMs \in V4Nows :
                     LET r  == FindCopyCandidates(trades, 1, leaders,
                                                  copied_state.value, nowMs, <<>>)
                         cs == {[wallet |-> w,
                                 before |-> Get(copied_state.value, w),
                                 batch  |-> OfWallet(trades, w),
                                 out    |-> OfWallet(r.candidates, w),
                                 after  |-> Get(r.copied, w),
                                 now    |-> nowMs] : w \in leaders}
                     IN  /\ copied_file' = r.copied
                         /\ calls' = cs
                         /\ emitCnt' = Bump(emitCnt, {r.candidates})
                         /\ scn' = IF nowMs = 900000 THEN ScnStep(scn, cs)
                                   ELSE ScnAbandon(scn, cs)
                /\ UNCHANGED v4_out
    /\ UNCHANGED <<prog, last_seen, state_file, last_seen_ts, crashed,
                   wallets, v2_out, winVars, rtdsVars, fetchVars, runVars>>

\* trade_collector.py: one iteration of main()'s loop; a failed request
\* raises and changes nothing
CollectorPoll ==
    /\ prog = "collector"
    /\ calls = {}
    /\ \E ok \in BOOLEAN, trades \in DistinctSeqs(WMTrades, MaxBatch) :
         IF ~ok
         THEN UNCHANGED <<last_seen_ts, calls, emitCnt, scn>>
         ELSE LET r  == FetchLatestTrades(trades, last_seen_ts)
                  cs == {Call(GlobalKey, last_seen_ts, trades, r.new, r.lastSeen)}
              IN  /\ last_seen_ts' = r.lastSeen
                  /\ calls' = cs
                  /\ emitCnt' = Bump(emitCnt, {r.new})
                  /\ scn' = ScnStep(scn, cs)
    /\ UNCHANGED <<prog, last_seen, state_file, copied_file, crashed, notWM>>

\* the handler has returned: the record of its calls is dropped before the
\* next run starts (the scripts run their handlers one after the other)
EndOfRun ==
    /\ calls # {}
    /\ calls' = {}
    /\ UNCHANGED <<prog, last_seen, state_file, copied_file, last_seen_ts,
                   emitCnt, scn, crashed, notWM>>

WMNext == ProcessLeaderTrades \/ V4Main \/ CollectorPoll \/ EndOfRun

\* trade_collector.py: one iteration of main()'s loop in which
\* append_trades() raises (open() fails, or a write after the first n
\* records): fetch_latest_trades() has set last_seen_ts already, the first n
\* new trades are in the log, and main() catches the exception
CollectorPollAppendFails ==
    /\ prog = "collector"
    /\ calls = {}
    /\ \E trades \in DistinctSeqs(WMTrades, MaxBatch) :
         LET r == FetchLatestTrades(trades, last_seen_ts)
         IN  /\ Len(r.new) > 0
             /\ \E n \in 0..(Len(r.new) - 1) :
                  LET written == SubSeq(r.new, 1, n)
                      cs == {Call(GlobalKey, last_seen_ts, trades, written, r.lastSeen)}
                  IN  /\ last_seen_ts' = r.lastSeen
                      /\ calls' = cs
                      /\ emitCnt' = Bump(emitCnt, {written})
                      /\ scn' = ScnAbandon(scn, cs)
    /\ UNCHANGED <<prog, last_seen, state_file, copied_file, crashed, notWM>>

NextPollAppendFails == WMNext \/ CollectorPollAppendFails

\* ---- the process is killed and started again (once in a behaviour) ------

\* copy_trader.py is restarted between two passes: line 48 reloads the state
CopyTraderRestart ==
    /\ prog = "copy_trader"
    /\ calls = {}
    /\ ~crashed
    /\ last_seen' = load_state(state_file)
    /\ calls' = {}
    /\ crashed' = TRUE
    /\ scn' = ScnOff
    /\ UNCHANGED <<prog, state_file, copied_file, last_seen_ts, emitCnt, notWM>>

\* copy_trader.py is killed inside the trade loop of LEADERS[j], after k
\* trades were printed and before save_state() at line 194, then restarted
ProcessLeaderTradesKilled ==
    /\ prog = "copy_trader"
    /\ calls = {}
    /\ ~crashed
    /\ \E fetched \in [Range(LEADERS) -> UNION {FetchAnswers(l) : l \in Range(LEADERS)}],
          j \in 1..Len(LEADERS), k \in 1..MaxBatch :
         /\ \A l \in Range(LEADERS) : fetched[l] \in FetchAnswers(l)
         /\ fetched[LEADERS[j]].ok
         /\ LET r    == CTPass([mem |-> last_seen, file |-> state_file, calls |-> {}],
                               1, j - 1, fetched)
                la   == Lower(LEADERS[j])
                full == CTScan(fetched[LEADERS[j]].trades,
                               Len(fetched[LEADERS[j]].trades), Get(r.mem, la), <<>>)
                out  == SubSeq(full.out, 1, k)
                cs   == r.calls \cup
                        {Call(la, Get(r.mem, la), fetched[LEADERS[j]].trades, out,
                              TsNumeric(out[k]))}
            IN  /\ k <= Len(full.out)
                /\ state_file' = r.file
                /\ last_seen' = load_state(r.file)
                /\ calls' = cs
                /\ emitCnt' = Bump(emitCnt, Outs(cs))
    /\ crashed' = TRUE
    /\ scn' = ScnOff
    /\ UNCHANGED <<prog, copied_file, last_seen_ts, notWM>>

\* leader_finder_v4.py is killed between save_json(OUT_CANDIDATES) (line 208)
\* and save_json(STATE_COPIED) (line 209)
V4MainKilled ==
    /\ prog = "v4"
    /\ calls = {}
    /\ ~crashed
    /\ \E trades \in DistinctSeqs(WMTrades, MaxBatch), leaders \in SUBSET Wallets,
          nowMs \in V4Nows :
         LET r  == FindCopyCandidates(trades, 1, leaders, copied_file, nowMs, <<>>)
             cs == {Call(w, Get(copied_file, w), OfWallet(trades, w),
                         OfWallet(r.candidates, w), Get(r.copied, w)) : w \in leaders}
         IN  /\ calls' = cs
             /\ emitCnt' = Bump(emitCnt, {r.candidates})
    /\ crashed' = TRUE
    /\ scn' = ScnOff
    /\ UNCHANGED <<prog, last_seen, state_file, copied_file, last_seen_ts, notWM>>

\* trade_collector.py is restarted: line 14 sets last_seen_ts = 0
CollectorRestart ==
    /\ prog = "collector"
    /\ calls = {}
    /\ ~crashed
    /\ last_seen_ts' = 0
    /\ calls' = {}
    /\ crashed' = TRUE
    /\ scn' = ScnOff
    /\ UNCHANGED <<prog, last_seen, state_file, copied_file, emitCnt, notWM>>

WMRestartNext ==
    CopyTraderRestart \/ ProcessLeaderTradesKilled \/ V4MainKilled \/ CollectorRestart

\* ---- the process is killed while it writes its state file -----------------

\* copy_trader.py is killed inside save_state() (lines 42-43) after the trades
\* of LEADERS[j] were printed: open(STATE_FILE, "w") has truncated the file
\* and json.dump() has not finished; the process is then started again
SaveStateKilled ==
    /\ prog = "copy_trader"
    /\ calls = {}
    /\ ~crashed
    /\ \E fetched \in [Range(LEADERS) -> UNION {FetchAnswers(l) : l \in Range(LEADERS)}],
          j \in 1..Len(LEADERS) :
         /\ \A l \in Range(LEADERS) : fetched[l] \in FetchAnswers(l)
         /\ LET r0 == CTPass([mem |-> last_seen, file |-> state_file, calls |-> {}],
                             1, j - 1, fetched)
                r  == CTLeader(r0, LEADERS[j], fetched[LEADERS[j]])
            IN  /\ \E c \in r.calls : c.wallet = Lower(LEADERS[j]) /\ Len(c.out) > 0
                /\ state_file' = NotJson
                /\ last_seen' = load_state(NotJson)
                /\ calls' = r.calls
                /\ emitCnt' = Bump(emitCnt, Outs(r.calls))
    /\ crashed' = TRUE
    /\ scn' = ScnOff
    /\ UNCHANGED <<prog, copied_file, last_seen_ts, notWM>>

\* leader_finder_v4.py is killed inside save_json(STATE_COPIED) (lines 61-62):
\* the candidates are written, copied_trades.json is truncated
SaveJsonKilled ==
    /\ prog = "v4"
    /\ calls = {}
    /\ ~crashed
    /\ load_json(copied_file).ok
    /\ \E trades \in DistinctSeqs(WMTrades, MaxBatch), leaders \in SUBSET Wallets,
          nowMs \in V4Nows :
         LET r  == FindCopyCandidates(trades, 1, leaders, copied_file, nowMs, <<>>)
             cs == {Call(w, Get(copied_file, w), OfWallet(trades, w),
                         OfWallet(r.candidates, w), Get(r.copied, w)) : w \in leaders}
         IN  /\ copied_file' = NotJson
             /\ calls' = cs
             /\ emitCnt' = Bump(emitCnt, {r.candidates})
    /\ crashed' = TRUE
    /\ scn' = ScnOff
    /\ UNCHANGED <<prog, last_seen, state_file, last_seen_ts, notWM>>

WMSaveKilledNext == SaveStateKilled \/ SaveJsonKilled

\* ---- two processes of leader_finder_v4.py ---------------------------------

\* time.time() of the two processes, in ms: every trade of the window is
\* younger than 15 minutes
RunNow == CHOOSE n \in V4Nows : \A m \in V4Nows : n <= m

\* process r runs main() up to find_copy_candidates() (lines 192-202): it reads
\* the window, selects the leaders, loads copied_trades.json and computes the
\* candidates and the new copied_state in memory; nothing in main() looks
\* whether another process is running
RunCompute(r) ==
    /\ prog = "v4"
    /\ runs[r] = NoRun
    /\ load_json(copied_file).ok
    /\ \E trades \in DistinctSeqs(WMTrades, MaxBatch), leaders \in SUBSET Wallets :
         LET copied_state == load_json(copied_file).value
             c == FindCopyCandidates(trades, 1, leaders, copied_state, RunNow, <<>>)
         IN  runs' = [runs EXCEPT ![r] = [pc           |-> "computed",
                                          candidates   |-> c.candidates,
                                          copied_state |-> c.copied]]
    /\ UNCHANGED <<wmVars, tierVars, winVars, rtdsVars, fetchVars, connVars, snapVars, thrVars>>

\* process r runs the rest of main() (lines 206-221): save_json(OUT_CANDIDATES),
\* save_json(STATE_COPIED) with the copied_state it computed, and exits
RunSave(r) ==
    /\ runs[r].pc = "computed"
    /\ copied_file' = runs[r].copied_state
    /\ emitCnt' = Bump(emitCnt, {runs[r].candidates})
    /\ runs' = [runs EXCEPT ![r] = [@ EXCEPT !.pc = "exited"]]
    /\ UNCHANGED <<prog, last_seen, state_file, last_seen_ts, calls, scn, crashed,
                   tierVars, winVars, rtdsVars, fetchVars, connVars, snapVars, thrVars>>

RunsNext == \E r \in RunIds : RunCompute(r) \/ RunSave(r)

(***************************************************************************)
(* TIER CLASSIFIER                                                         *)
(* leader_finder_v2.py (select_whales, select_qualified, main) and         *)
(* leader_finder_v4.py (select_leaders)                                    *)
(***************************************************************************)

\* leader_finder_v2.py thresholds
MIN_WHALE_VOLUME_USDC == 50000
MIN_WHALE_TRADES == 20
MIN_WHALE_DISTINCT_MARKETS == 3
MIN_TRADER_VOLUME_USDC == 1000
MIN_TRADER_TRADES == 5
MIN_TRADER_DISTINCT_MARKETS == 2

ALLOWED_CATEGORIES_STEP2 ==
    {"Politics", "US-current-affairs", "World", "Geopolitics", "Sports", "Sport", "Tech"}

\* leader_finder_v4.py thresholds
WHALE_VOLUME == 50000
WHALE_TRADES == 5
WHALE_MARKETS == 2
TRADER_VOLUME == 1000
TRADER_TRADES == 3
TRADER_MARKETS == 2

\* the slice [:10] of main()
TOP_K == 10

\* Gamma market metadata: with a category, without the field, with an empty one
Markets ==
    { [conditionId |-> "c1", category |-> "Politics"],
      [conditionId |-> "c2", category |-> "Crypto"],
      [conditionId |-> "c3"],
      [conditionId |-> "c4", category |-> ""] }

MarketOf(cid) == CHOOSE m \in Markets : m.conditionId = cid

\* the placeholder get_category() returns for a market without category
\* (an em dash in the source)
DASH == "-"

\* market.get("category") or DASH
get_category(market) ==
    IF "category" \in DOMAIN market /\ market.category # "" THEN market.category ELSE DASH

\* the entry aggregate_wallets() holds for a wallet whose trades in the window
\* have this volume and count and are on these (active) markets
WalletEntry(w, volume, count, cids) ==
    [wallet                 |-> w,
     volume_usdc            |-> volume,
     trade_count            |-> count,
     distinct_markets       |-> cids,
     distinct_markets_count |-> Cardinality(cids),
     categories             |-> {get_category(MarketOf(c)) : c \in cids}]

TierVolumes == {999, 1000, 50000, 60000}
TierCounts == {4, 5, 20}
TierMarketSets == { {"c1"}, {"c3", "c4"}, {"c2", "c4"}, {"c1", "c2", "c3"} }
TierNames == <<"0xa", "0xb", "0xc", "0xd">>

\* the aggregations of n wallets
RECURSIVE TierInputs(_)
TierInputs(n) ==
    IF n = 0 THEN {<<>>}
    ELSE {Append(s, WalletEntry(TierNames[n], v, c, ms)) :
              s \in TierInputs(n - 1), v \in TierVolumes, c \in TierCounts,
              ms \in TierMarketSets}

\* list.sort(key=volume_usdc, reverse=True): stable, descending
RECURSIVE InsertDesc(_, _)
InsertDesc(sorted, e) ==
    IF sorted = <<>> THEN <<e>>
    ELSE IF Head(sorted).volume_usdc >= e.volume_usdc
         THEN <<Head(sorted)>> \o InsertDesc(Tail(sorted), e)
         ELSE <<e>> \o sorted

RECURSIVE SortByVolumeDesc(_)
SortByVolumeDesc(s) ==
    IF s = <<>> THEN <<>>
    ELSE InsertDesc(SortByVolumeDesc(SubSeq(s, 1, Len(s) - 1)), s[Len(s)])

Take(s, n) == SubSeq(s, 1, IF Len(s) < n THEN Len(s) ELSE n)

select_whales(ws) ==
    SortByVolumeDesc(SelectSeq(ws, LAMBDA w :
        /\ w.volume_usdc >= MIN_WHALE_VOLUME_USDC
        /\ w.trade_count >= MIN_WHALE_TRADES
        /\ w.distinct_markets_count >= MIN_WHALE_DISTINCT_MARKETS))

select_qualified(ws) ==
    SortByVolumeDesc(SelectSeq(ws, LAMBDA w :
        /\ w.volume_usdc >= MIN_TRADER_VOLUME_USDC
        /\ w.trade_count >= MIN_TRADER_TRADES
        /\ w.distinct_markets_count >= MIN_TRADER_DISTINCT_MARKETS
        /\ w.categories \cap ALLOWED_CATEGORIES_STEP2 # {}))

NamesOf(ws) == [i \in 1..Len(ws) |-> ws[i].wallet]

\* a main() that goes on to step 2 after saving the whales
V2MainMixed(ws) ==
    LET whales    == select_whales(ws)
        qualified == select_qualified(ws)
    IN  [stages    |-> <<"whales", "qualified">>,
         leaders   |-> NamesOf(Take(whales, TOP_K)) \o NamesOf(Take(qualified, TOP_K)),
         whales    |-> Take(whales, TOP_K),
         qualified |-> Take(qualified, TOP_K)]

\* leader_finder_v2.main() from STEP 1 on: the stages run, auto_leaders.json
\* and the whales / qualified lists of leaders_report.json
V2Main(ws) ==
    LET whales == select_whales(ws)
    IN  IF whales # <<>>
        THEN [stages    |-> <<"whales">>,
              leaders   |-> NamesOf(Take(whales, TOP_K)),
              whales    |-> Take(whales, TOP_K),
              qualified |-> <<>>]
        ELSE LET qualified == select_qualified(ws)
             IN  [stages    |-> <<"whales", "qualified">>,
                  leaders   |-> NamesOf(Take(qualified, TOP_K)),
                  whales    |-> <<>>,
                  qualified |-> Take(qualified, TOP_K)]

IsWhaleV4(s) ==
    /\ s.volume_usdc >= WHALE_VOLUME
    /\ s.trade_count >= WHALE_TRADES
    /\ s.distinct_markets_count >= WHALE_MARKETS

IsTraderV4(s) ==
    /\ s.volume_usdc >= TRADER_VOLUME
    /\ s.trade_count >= TRADER_TRADES
    /\ s.distinct_markets_count >= TRADER_MARKETS

\* a select_leaders that falls back on a default leader when none is found
select_leaders_default(ws) ==
    LET whales  == SelectSeq(ws, IsWhaleV4)
        traders == SelectSeq(ws, LAMBDA s : ~IsWhaleV4(s) /\ IsTraderV4(s))
    IN  IF whales # <<>>
        THEN [mode |-> "WHALES", leaders |-> NamesOf(whales)]
        ELSE IF traders # <<>>
        THEN [mode |-> "TRADERS", leaders |-> NamesOf(traders)]
        ELSE [mode |-> "TRADERS", leaders |-> <<"0xdefault">>]

\* leader_finder_v4.select_leaders(): stats.items() in insertion order
select_leaders(ws) ==
    LET whales  == SelectSeq(ws, IsWhaleV4)
        traders == SelectSeq(ws, LAMBDA s : ~IsWhaleV4(s) /\ IsTraderV4(s))
    IN  IF whales # <<>>
        THEN [mode |-> "WHALES", leaders |-> NamesOf(whales)]
        ELSE [mode |-> "TRADERS", leaders |-> NamesOf(traders)]

NotRun == [stages |-> <<>>]

TierInit ==
    /\ wallets \in UNION {TierInputs(n) : n \in 0..MaxWallets}
    /\ v2_out = NotRun
    /\ v4_out = NotRun

\* aggregations of up to MaxRanked wallets that all belong to one tier (whales
\* from 50000 USDC, qualified from 1000), on three markets of which one is in
\* an allowed category; step and shift spread the volumes over the insertion
\* order, step 0 makes them all equal
RankedInputs ==
    { [i \in 1..n |->
          WalletEntry("w" \o ToString(i),
                      base + 1000 * ((i * step + shift) % (MaxRanked + 1)),
                      20, {"c1", "c2", "c3"})] :
      n \in 0..MaxRanked, base \in {1000, 50000}, step \in {0, 1, 5},
      shift \in 0..MaxRanked }

TierIdle ==
    /\ wallets = <<>>
    /\ v2_out = NotRun
    /\ v4_out = NotRun

\* leader_finder_v2.py classifies the aggregation
V2Classify ==
    /\ v2_out = NotRun
    /\ v2_out' = V2Main(wallets)
    /\ UNCHANGED <<wallets, v4_out, notTier>>

\* leader_finder_v4.py classifies the aggregation
V4Classify ==
    /\ v4_out = NotRun
    /\ v4_out' = [stages |-> <<"select_leaders">>] @@ select_leaders(wallets)
    /\ UNCHANGED <<wallets, v2_out, notTier>>

TierNext == V2Classify \/ V4Classify

(***************************************************************************)
(* TRADE LOG AND 24H WINDOW                                                *)
(* leader_finder_v3.py / leader_finder_v4.py: load_recent_trades and the   *)
(* aggregation of what it returns                                          *)
(***************************************************************************)

WINDOW_24H == 24 * 60 * 60

\* WINDOW_SECONDS of leader_finder_v3.py
WINDOW_SECONDS == 24 * 60 * 60

\* the instants (time.time() in ms) at which a run may read the clock;
\* the cutoffs are 5000 ms and 6000 ms
WinNows == {86400000 + 5000, 86400000 + 6000}

\* the lines the log may hold: a line that is not JSON, and records with or
\* without "timestamp" / "proxyWallet" (timestamps in ms); a field that is
\* absent here stands for a key that is missing or null, which t.get() cannot
\* tell apart; prices are in thousandths, so volumes are in thousandths of
\* a USDC
LogLines ==
    { [raw |-> "garbage"],
      [json |-> [id |-> "L1", proxyWallet |-> "0xa", conditionId |-> "c1",
                 size |-> 10, price |-> 2]],
      [json |-> [id |-> "L2", proxyWallet |-> "0xa", conditionId |-> "c1",
                 size |-> 10, price |-> 2, timestamp |-> 0]],
      [json |-> [id |-> "L3", proxyWallet |-> "0xa", conditionId |-> "c2",
                 size |-> 3, price |-> 1, timestamp |-> 4999]],
      [json |-> [id |-> "L4", proxyWallet |-> "0xb", conditionId |-> "c1",
                 size |-> 6, price |-> 1, timestamp |-> 5000]],
      [json |-> [id |-> "L5", conditionId |-> "c2",
                 size |-> 7, price |-> 1, timestamp |-> 5001]],
      [json |-> [id |-> "L6", proxyWallet |-> "0xa", conditionId |-> "c2",
                 size |-> 4, price |-> 3, timestamp |-> 6000]],
      [json |-> [id |-> "L7", proxyWallet |-> "0xa", conditionId |-> "c1",
                 size |-> 2000000, price |-> 1, timestamp |-> 6000]] }

\* records with a value that is not a number: "bad" names the field (the
\* field itself is left out here, its text is never used)
MalformedLines ==
    { [json |-> [id |-> "L8", proxyWallet |-> "0xb", conditionId |-> "c1",
                 size |-> 6, price |-> 1, bad |-> "timestamp"]],
      [json |-> [id |-> "L9", proxyWallet |-> "0xb", conditionId |-> "c2",
                 price |-> 1, timestamp |-> 6000, bad |-> "size"]] }

\* the value of field k of record t is text that is not a number
IsBad(t, k) == "bad" \in DOMAIN t /\ t.bad = k

\* load_recent_trades() of v3 and v4: ts_ms / 1000 raises TypeError on text
LoadRaises(lines) ==
    \E i \in 1..Len(lines) : "json" \in DOMAIN lines[i] /\ IsBad(lines[i].json, "timestamp")

\* aggregate() / analyze_trades(): float() raises ValueError on the size or
\* price of a trade that has a wallet
AggregateRaises(trades) ==
    \E i \in 1..Len(trades) :
        /\ "proxyWallet" \in DOMAIN trades[i]
        /\ (IsBad(trades[i], "size") \/ IsBad(trades[i], "price"))

\* json.loads(line) succeeds
IsJson(line) == "json" \in DOMAIN line

\* a filter that drops the event exactly at the cutoff
RECURSIVE load_recent_trades_v4_strict(_, _)
load_recent_trades_v4_strict(lines, nowMs) ==
    IF lines = <<>> THEN <<>>
    ELSE LET line == Head(lines)
             rest == load_recent_trades_v4_strict(Tail(lines), nowMs)
         IN  IF ~IsJson(line) THEN rest
             ELSE IF "timestamp" \notin DOMAIN line.json THEN rest
             ELSE IF line.json.timestamp > nowMs - WINDOW_24H * 1000
                  THEN <<line.json>> \o rest
                  ELSE rest

\* leader_finder_v4.load_recent_trades(): "if not ts_ms" skips a missing and
\* a zero timestamp; ts_ms / 1000 >= now - WINDOW_24H, with now = nowMs / 1000
RECURSIVE load_recent_trades_v4(_, _)
load_recent_trades_v4(lines, nowMs) ==
    IF lines = <<>> THEN <<>>
    ELSE LET line == Head(lines)
             rest == load_recent_trades_v4(Tail(lines), nowMs)
         IN  IF ~IsJson(line) THEN rest
             ELSE IF "timestamp" \notin DOMAIN line.json THEN rest
             ELSE IF line.json.timestamp = 0 THEN rest
             ELSE IF line.json.timestamp >= nowMs - WINDOW_24H * 1000
                  THEN <<line.json>> \o rest
                  ELSE rest

\* leader_finder_v3.load_recent_trades(): "if ts_ms is None" skips a missing
\* timestamp only
RECURSIVE load_recent_trades_v3(_, _)
load_recent_trades_v3(lines, nowMs) ==
    IF lines = <<>> THEN <<>>
    ELSE LET line == Head(lines)
             rest == load_recent_trades_v3(Tail(lines), nowMs)
         IN  IF ~IsJson(line) THEN rest
             ELSE IF "timestamp" \notin DOMAIN line.json THEN rest
             ELSE IF line.json.timestamp >= nowMs - WINDOW_SECONDS * 1000
                  THEN <<line.json>> \o rest
                  ELSE rest

\* index of wallet w in the stats, 0 when it has no entry yet
IndexOf(stats, w) ==
    IF \E i \in 1..Len(stats) : stats[i].wallet = w
    THEN CHOOSE i \in 1..Len(stats) : stats[i].wallet = w
    ELSE 0

\* leader_finder_v4.aggregate(): the stats in dict insertion order
RECURSIVE aggregate(_, _)
aggregate(trades, stats) ==
    IF trades = <<>> THEN stats
    ELSE LET t == Head(trades)
         IN  IF "proxyWallet" \notin DOMAIN t
             THEN aggregate(Tail(trades), stats)
             ELSE LET w  == t.proxyWallet
                      i  == IndexOf(stats, w)
                      s0 == IF i = 0
                            THEN [wallet |-> w, volume |-> 0, trade_count |-> 0,
                                  markets |-> {}]
                            ELSE stats[i]
                      s1 == [wallet      |-> w,
                             volume      |-> s0.volume + t.size * t.price,
                             trade_count |-> s0.trade_count + 1,
                             markets     |-> s0.markets \cup
                                 (IF "conditionId" \in DOMAIN t THEN {t.conditionId} ELSE {})]
                  IN  aggregate(Tail(trades),
                                IF i = 0 THEN Append(stats, s1)
                                ELSE [stats EXCEPT ![i] = s1])

\* results.sort(key=volume_24h, reverse=True): stable, descending
RECURSIVE InsertDescV3(_, _)
InsertDescV3(sorted, e) ==
    IF sorted = <<>> THEN <<e>>
    ELSE IF Head(sorted).volume_24h >= e.volume_24h
         THEN <<Head(sorted)>> \o InsertDescV3(Tail(sorted), e)
         ELSE <<e>> \o sorted

RECURSIVE SortV3(_)
SortV3(s) ==
    IF s = <<>> THEN <<>>
    ELSE InsertDescV3(SortV3(SubSeq(s, 1, Len(s) - 1)), s[Len(s)])

\* a mis-scaled round(x, 2) that leaves the volume as it is
Round2Exact(v) == v

\* round(x, 2) of a volume in thousandths: the nearest hundredth (no volume
\* of the model lies half way between two hundredths)
Round2(v) == ((v + 5) \div 10) * 10

\* leader_finder_v3.analyze_trades(): the same accumulation as aggregate(),
\* then one result per wallet with the volume rounded, sorted by volume
analyze_trades(trades) ==
    LET stats == aggregate(trades, <<>>)
    IN  SortV3([i \in 1..Len(stats) |->
                  [wallet        |-> stats[i].wallet,
                   volume_24h    |-> Round2(stats[i].volume),
                   trade_count   |-> stats[i].trade_count,
                   markets_count |-> Cardinality(stats[i].markets)]])

NotRead == [prog |-> "none"]

WinInit ==
    /\ log = <<>>
    /\ win = NotRead


\* a collector appends a line to the log
LogAppend ==
    /\ Len(log) < MaxLog
    /\ \E line \in LogLines : log' = Append(log, line)
    /\ win' = NotRead
    /\ UNCHANGED notWin

\* the stats as select_leaders() reads them: volume in USDC, number of markets
V4Stats(stats) ==
    [i \in 1..Len(stats) |->
        [wallet                 |-> stats[i].wallet,
         volume_usdc            |-> stats[i].volume \div 1000,
         trade_count            |-> stats[i].trade_count,
         distinct_markets_count |-> Cardinality(stats[i].markets)]]

\* leader_finder_v4.main(): trades = load_recent_trades(); aggregate(trades);
\* select_leaders(stats); auto_leaders.json is written
V4ReadWindow ==
    /\ \E nowMs \in WinNows :
         IF LoadRaises(log)
         THEN win' = [prog |-> "v4", nowMs |-> nowMs, error |-> "TypeError"]
         ELSE LET trades == load_recent_trades_v4(log, nowMs)
              IN  IF AggregateRaises(trades)
                  THEN win' = [prog |-> "v4", nowMs |-> nowMs, error |-> "ValueError"]
                  ELSE LET stats == aggregate(trades, <<>>)
                           sel   == select_leaders(V4Stats(stats))
                       IN  win' = [prog |-> "v4", nowMs |-> nowMs, trades |-> trades,
                                   agg_in |-> trades, stats |-> stats,
                                   mode |-> sel.mode, leaders |-> sel.leaders]
    /\ UNCHANGED <<log, notWin>>

\* leader_finder_v3.main(): trades = load_recent_trades(); analyze_trades(trades)
V3ReadWindow ==
    /\ \E nowMs \in WinNows :
         IF LoadRaises(log)
         THEN win' = [prog |-> "v3", nowMs |-> nowMs, error |-> "TypeError"]
         ELSE LET trades == load_recent_trades_v3(log, nowMs)
              IN  IF AggregateRaises(trades)
                  THEN win' = [prog |-> "v3", nowMs |-> nowMs, error |-> "ValueError"]
                  ELSE win' = [prog |-> "v3", nowMs |-> nowMs, trades |-> trades,
                               agg_in |-> trades, stats |-> analyze_trades(trades)]
    /\ UNCHANGED <<log, notWin>>

\* a record with a value that is not a number reaches the log
LogAppendMalformed ==
    /\ Len(log) < MaxLog
    /\ \E line \in MalformedLines : log' = Append(log, line)
    /\ win' = NotRead
    /\ UNCHANGED notWin

WinNext == LogAppend \/ V4ReadWindow \/ V3ReadWindow

(***************************************************************************)
(* REAL-TIME COLLECTOR                                                     *)
(* trade_collector_rtds.py: LruSeen, extract_trade_minimal,                *)
(* make_dedup_token, RTDSTradeCollector._on_message                        *)
(***************************************************************************)

\* an RTDS message of topic "activity", type "trades"
TradeMsg(h, ts, w, c, side, size, price) ==
    [json |-> [topic |-> "activity", type |-> "trades", timestamp |-> ts,
               payload |-> [transactionHash |-> h, proxyWallet |-> w,
                            conditionId |-> c, side |-> side,
                            size |-> size, price |-> price]]]

MsgK == TradeMsg("0xh1", 7000, "0xa", "c1", "BUY", 10, 2)
MsgA == TradeMsg("0xh2", 7001, "0xb", "c1", "SELL", 5, 1)
MsgB == TradeMsg("0xh3", 7002, "0xa", "c2", "BUY", 3, 1)
\* two trades whose wallet and market differ
MsgP1 == TradeMsg("0xh4", 7003, "0xa|c1", "c2", "BUY", 1, 1)
MsgP2 == TradeMsg("0xh4", 7003, "0xa", "c1|c2", "BUY", 1, 1)

\* what the websocket may deliver: text that is not JSON, a message of
\* another topic or another type, a trade message whose payload is not an
\* object, trades
RtdsMessages ==
    { [raw |-> "garbage"],
      [json |-> [topic |-> "comments", type |-> "trades", timestamp |-> 7000,
                 payload |-> [proxyWallet |-> "0xa"]]],
      [json |-> [topic |-> "activity", type |-> "orders_matched", timestamp |-> 7000,
                 payload |-> [proxyWallet |-> "0xa"]]],
      [json |-> [topic |-> "activity", type |-> "trades", timestamp |-> 7000]],
      MsgK, MsgA, MsgB, MsgP1, MsgP2 }

\* the log may grow to this many lines
RtdsLogCap == DedupMax + 2

\* safe_json_loads() gives None for text that is not JSON
safe_json_loads(message) == IF IsJson(message) THEN message.json ELSE [none |-> TRUE]

IsNone(x) == "none" \in DOMAIN x

\* an extract_trade_minimal that looks at the topic only
extract_trade_any_type(message) ==
    IF "topic" \notin DOMAIN message \/ message.topic # "activity"
       THEN [none |-> TRUE]
    ELSE IF "payload" \notin DOMAIN message
       THEN [none |-> TRUE]
    ELSE [k \in (DOMAIN message.payload \cap
                   {"transactionHash", "proxyWallet", "conditionId", "side",
                    "size", "price"})
                 \cup (DOMAIN message \cap {"timestamp"})
            |-> IF k = "timestamp" THEN message.timestamp ELSE message.payload[k]]

\* extract_trade_minimal(): None unless topic/type are activity/trades and the
\* payload is an object; else the record with the message timestamp and the
\* flat fields of the payload (a key absent from the record stands for None)
extract_trade_minimal(message) ==
    IF \/ "topic" \notin DOMAIN message \/ "type" \notin DOMAIN message
       THEN [none |-> TRUE]
    ELSE IF message.topic # "activity" \/ message.type # "trades"
       THEN [none |-> TRUE]
    ELSE IF "payload" \notin DOMAIN message
       THEN [none |-> TRUE]
    ELSE [k \in (DOMAIN message.payload \cap
                   {"transactionHash", "proxyWallet", "conditionId", "side",
                    "size", "price"})
                 \cup (DOMAIN message \cap {"timestamp"})
            |-> IF k = "timestamp" THEN message.timestamp ELSE message.payload[k]]

\* str(x) of a text field: the text itself, "None" for None
StrText(rec, k) == IF k \in DOMAIN rec THEN rec[k] ELSE "None"

\* str(x) of a numeric field: its decimal digits, "None" for None
StrNum(rec, k) == IF k \in DOMAIN rec THEN ToString(rec[k]) ELSE "None"

\* make_dedup_token(): "|".join(str(x) for x in the seven fields)
make_dedup_token(rec) ==
    StrText(rec, "transactionHash") \o "|" \o StrNum(rec, "timestamp") \o "|" \o
    StrText(rec, "proxyWallet") \o "|" \o StrText(rec, "conditionId") \o "|" \o
    StrText(rec, "side") \o "|" \o StrNum(rec, "size") \o "|" \o
    StrNum(rec, "price")

\* an add_if_new that makes room before the deque is full
add_if_new_early(dq, st, token) ==
    IF token \in st THEN [new |-> FALSE, dq |-> dq, st |-> st]
    ELSE IF Len(dq) >= 1
         THEN [new |-> TRUE, dq |-> Append(Tail(dq), token),
               st |-> (st \ {Head(dq)}) \cup {token}]
         ELSE [new |-> TRUE, dq |-> Append(dq, token), st |-> st \cup {token}]

\* an add_if_new that drops the oldest token from the deque only
add_if_new_keep(dq, st, token) ==
    IF token \in st THEN [new |-> FALSE, dq |-> dq, st |-> st]
    ELSE IF Len(dq) = DedupMax
         THEN [new |-> TRUE, dq |-> Append(Tail(dq), token), st |-> st \cup {token}]
         ELSE [new |-> TRUE, dq |-> Append(dq, token), st |-> st \cup {token}]

\* an add_if_new that moves a token seen again to the newest position
add_if_new_refresh(dq, st, token) ==
    IF token \in st
    THEN [new |-> FALSE, dq |-> Append(SelectSeq(dq, LAMBDA x : x # token), token),
          st |-> st]
    ELSE IF Len(dq) = DedupMax
         THEN [new |-> TRUE, dq |-> Append(Tail(dq), token),
               st |-> (st \ {Head(dq)}) \cup {token}]
         ELSE [new |-> TRUE, dq |-> Append(dq, token), st |-> st \cup {token}]

\* LruSeen.add_if_new(): False for a token in _set; else the oldest token is
\* dropped when the deque is full, and the token is added
add_if_new(dq, st, token) ==
    IF token \in st THEN [new |-> FALSE, dq |-> dq, st |-> st]
    ELSE IF Len(dq) = DedupMax
         THEN [new |-> TRUE, dq |-> Append(Tail(dq), token),
               st |-> (st \ {Head(dq)}) \cup {token}]
         ELSE [new |-> TRUE, dq |-> Append(dq, token), st |-> st \cup {token}]

\* JsonlWriter.append(): one more line at the end of the file
JsonlAppend(file, obj) == Append(file, [json |-> obj])

NoMsg == [result |-> "none"]

\* RTDSTradeCollector.__init__(): an empty LruSeen
RtdsInit ==
    /\ seen_dq = <<>>
    /\ seen_set = {}
    /\ run_from = 0
    /\ last_msg = NoMsg


\* RTDSTradeCollector._on_message()
OnMessage ==
    /\ Len(log) < RtdsLogCap
    /\ \E message \in RtdsMessages :
         LET obj == safe_json_loads(message)
             rec == extract_trade_minimal(obj)
         IN  IF IsNone(obj) \/ IsNone(rec)
             THEN /\ last_msg' = [result |-> "ignored", message |-> message]
                  /\ UNCHANGED <<seen_dq, seen_set, log>>
             ELSE LET r == add_if_new(seen_dq, seen_set, make_dedup_token(rec))
                  IN  /\ seen_dq' = r.dq
                      /\ seen_set' = r.st
                      /\ IF r.new
                         THEN /\ log' = JsonlAppend(log, rec)
                              /\ last_msg' = [result |-> "written", rec |-> rec,
                                            message |-> message]
                         ELSE /\ log' = log
                              /\ last_msg' = [result |-> "duplicate", rec |-> rec,
                                            message |-> message]
    /\ win' = NotRead
    /\ UNCHANGED <<run_from, notRtds>>

\* the collector process is stopped and started again: the log file stays,
\* LruSeen is built anew
RtdsRestart ==
    /\ run_from = 0
    /\ Len(log) > 0
    /\ seen_dq' = <<>>
    /\ seen_set' = {}
    /\ run_from' = Len(log)
    /\ last_msg' = NoMsg
    /\ UNCHANGED <<log, win, notRtds>>

RtdsNext == OnMessage \/ RtdsRestart

\* RTDSTradeCollector._on_message() for a trade whose token add_if_new()
\* accepts, JsonlWriter.append() raising OSError (open or write fails): the
\* token was added before the writer is called, and nothing is written
OnMessageAppendFails ==
    /\ \E message \in RtdsMessages :
         LET obj == safe_json_loads(message)
             rec == extract_trade_minimal(obj)
             r   == add_if_new(seen_dq, seen_set, make_dedup_token(rec))
         IN  /\ ~IsNone(obj)
             /\ ~IsNone(rec)
             /\ r.new
             /\ seen_dq' = r.dq
             /\ seen_set' = r.st
             /\ last_msg' = [result |-> "append_failed", rec |-> rec,
                             message |-> message]
    /\ win' = NotRead
    /\ UNCHANGED <<log, run_from, notRtds>>

RtdsAppendFailsNext == RtdsNext \/ OnMessageAppendFails

(***************************************************************************)
(* LruSeen.add_if_new, STATEMENT BY STATEMENT, CALLED FROM TWO THREADS     *)
(* trade_collector_rtds.py: LruSeen                                        *)
(***************************************************************************)

notThr == <<wmVars, tierVars, winVars, run_from, last_msg, fetchVars, runs,
            connVars, snapVars>>

\* the tokens the threads offer: those of four trades
ThreadTokens ==
    {make_dedup_token(extract_trade_minimal(m.json)) : m \in {MsgK, MsgA, MsgB, MsgP1}}

\* the thread is between the entry and the return of add_if_new()
InCall(t) == thr[t].pc \notin {"idle", "returned"}

\* a "with" that enters without looking at the lock
LockIgnored(l) == TRUE

\* "with self._lock" may be entered
LockFree(l) == l = "free"

\* thread t calls add_if_new(token); seen says whether the token is
\* tracked at this moment, and during says which threads were inside
\* add_if_new() at some moment of this call
ThrCall(t) ==
    /\ thr[t].pc = "idle"
    /\ \E token \in ThreadTokens :
         thr' = [u \in ThreadIds |->
                   IF u = t
                   THEN [pc |-> "enter", token |-> token,
                         seen |-> token \in seen_set,
                         during |-> {v \in ThreadIds \ {t} : InCall(v)}]
                   ELSE IF InCall(u)
                        THEN [thr[u] EXCEPT !.during = @ \cup {t}]
                        ELSE thr[u]]
    /\ UNCHANGED <<lock, seen_dq, seen_set, notThr>>

\* with self._lock: the thread waits until the lock is free and takes it
ThrAcquire(t) ==
    /\ thr[t].pc = "enter"
    /\ LockFree(lock)
    /\ lock' = t
    /\ thr' = [thr EXCEPT ![t].pc = "test"]
    /\ UNCHANGED <<seen_dq, seen_set, notThr>>

\* if token in self._set: return False
ThrTest(t) ==
    /\ thr[t].pc = "test"
    /\ thr' = [thr EXCEPT ![t].pc = IF thr[t].token \in seen_set
                                     THEN "return_false" ELSE "full"]
    /\ UNCHANGED <<lock, seen_dq, seen_set, notThr>>

\* if len(self._dq) == self._maxlen: old = self._dq.popleft()
ThrPop(t) ==
    /\ thr[t].pc = "full"
    /\ IF Len(seen_dq) = DedupMax
       THEN /\ seen_dq' = Tail(seen_dq)
            /\ thr' = [u \in ThreadIds |->
                         IF u = t
                         THEN [pc |-> "discard", token |-> thr[t].token,
                               seen |-> thr[t].seen, during |-> thr[t].during,
                               old |-> Head(seen_dq)]
                         ELSE thr[u]]
       ELSE /\ seen_dq' = seen_dq
            /\ thr' = [thr EXCEPT ![t].pc = "append"]
    /\ UNCHANGED <<lock, seen_set, notThr>>

\* self._set.discard(old)
ThrDiscard(t) ==
    /\ thr[t].pc = "discard"
    /\ seen_set' = seen_set \ {thr[t].old}
    /\ thr' = [thr EXCEPT ![t].pc = "append"]
    /\ UNCHANGED <<lock, seen_dq, notThr>>

\* self._dq.append(token); a deque(maxlen) that is full drops its head
ThrAppend(t) ==
    /\ thr[t].pc = "append"
    /\ seen_dq' = IF Len(seen_dq) >= DedupMax
                  THEN Append(Tail(seen_dq), thr[t].token)
                  ELSE Append(seen_dq, thr[t].token)
    /\ thr' = [thr EXCEPT ![t].pc = "add"]
    /\ UNCHANGED <<lock, seen_set, notThr>>

\* self._set.add(token); return True
ThrAdd(t) ==
    /\ thr[t].pc = "add"
    /\ seen_set' = seen_set \cup {thr[t].token}
    /\ thr' = [thr EXCEPT ![t].pc = "return_true"]
    /\ UNCHANGED <<lock, seen_dq, notThr>>

\* the "with" block is left, the lock released, and the call returns
ThrReturn(t) ==
    /\ thr[t].pc \in {"return_true", "return_false"}
    /\ lock' = IF lock = t THEN "free" ELSE lock
    /\ thr' = [u \in ThreadIds |->
                 IF u = t
                 THEN [pc |-> "returned", token |-> thr[t].token,
                       seen |-> thr[t].seen, during |-> thr[t].during,
                       ret |-> thr[t].pc = "return_true"]
                 ELSE thr[u]]
    /\ UNCHANGED <<seen_dq, seen_set, notThr>>

\* the caller goes on; every thread is out of add_if_new() before the next
\* calls are made, so that what a call returned stays visible until then
ThrNextCalls ==
    /\ \A t \in ThreadIds : thr[t].pc \in {"idle", "returned"}
    /\ \E t \in ThreadIds : thr[t].pc = "returned"
    /\ thr' = [t \in ThreadIds |-> NoCall]
    /\ UNCHANGED <<lock, seen_dq, seen_set, notThr>>

ThrNext ==
    \/ \E t \in ThreadIds :
          \/ ThrCall(t)
          \/ ThrAcquire(t)
          \/ ThrTest(t)
          \/ ThrPop(t)
          \/ ThrDiscard(t)
          \/ ThrAppend(t)
          \/ ThrAdd(t)
          \/ ThrReturn(t)
    \/ ThrNextCalls

(***************************************************************************)
(* THE LOG READ WHILE IT IS WRITTEN                                        *)
(* trade_collector_rtds.py: JsonlWriter.append; leader_finder_v4.py:       *)
(* load_recent_trades, main                                                *)
(***************************************************************************)

notSnap == <<wmVars, tierVars, rtdsVars, fetchVars, runs, connVars, thrVars>>

\* the records the collector writes here: three of LogLines, and one whose
\* payload holds a character of more than one byte (json.dumps is called
\* with ensure_ascii=False)
SnapLines ==
    { l \in LogLines : IsJson(l) /\ l.json.id \in {"L3", "L4", "L6"} } \cup
    { [json |-> [id |-> "L10", proxyWallet |-> "0xb", conditionId |-> "c2",
                 size |-> 8, price |-> 1, timestamp |-> 6000,
                 non_ascii |-> TRUE]] }

\* the last line of the file is there in part only
IsTorn(line) == "whole" \in DOMAIN line

LastIsTorn(lines) == lines # <<>> /\ IsTorn(lines[Len(lines)])

\* where the bytes of a line may be cut: between two characters, and inside
\* a character of more than one byte if the line holds one
CutsOf(line) ==
    IF "non_ascii" \in DOMAIN line.json THEN {"ascii", "in_char"} ELSE {"ascii"}

\* JsonlWriter.append(): the line and its newline are in the file
WriterAppend ==
    /\ Len(log) < MaxLog
    /\ ~LastIsTorn(log)
    /\ \E line \in SnapLines : log' = JsonlAppend(log, line.json)
    /\ UNCHANGED <<win, rd, notSnap>>

\* JsonlWriter.append(): f.write(line + "\n") has reached the file in part;
\* the lock of the writer is not taken by the process that reads
WriterAppendBegin ==
    /\ Len(log) < MaxLog
    /\ ~LastIsTorn(log)
    /\ \E line \in SnapLines :
         \E cut \in CutsOf(line) :
            log' = Append(log, [raw |-> "head", whole |-> line, cut |-> cut])
    /\ UNCHANGED <<win, rd, notSnap>>

\* JsonlWriter.append(): the rest of the line has reached the file
WriterAppendEnd ==
    /\ LastIsTorn(log)
    /\ log' = [log EXCEPT ![Len(log)] = log[Len(log)].whole]
    /\ UNCHANGED <<win, rd, notSnap>>

\* leader_finder_v4.load_recent_trades(): cutoff = now_ts() - WINDOW_24H and
\* the file is opened
ReadOpen ==
    /\ rd.pc = "idle"
    /\ \E nowMs \in WinNows :
         rd' = [pc |-> "reading", nowMs |-> nowMs, pos |-> 0, mid |-> FALSE,
                trades |-> <<>>]
    /\ UNCHANGED <<log, win, notSnap>>

\* load_recent_trades(): one turn of "for line in f". rd.pos lines were read
\* to their end; rd.mid says that the head of the next line was read as well.
\* What is read of a line that is there in part is its head, which is not
\* JSON and is skipped, unless it ends inside a character: the decoder of
\* the file raises UnicodeDecodeError at the end of the file, outside the
\* try. The rest of such a line, read later, is not JSON either.
ReadLine ==
    /\ rd.pc = "reading"
    /\ rd.pos < Len(log)
    /\ LET line == log[rd.pos + 1]
       IN  IF IsTorn(line)
           THEN /\ ~rd.mid
                /\ rd' = IF line.cut = "in_char"
                         THEN [pc |-> "failed", nowMs |-> rd.nowMs,
                               error |-> "UnicodeDecodeError"]
                         ELSE [rd EXCEPT !.mid = TRUE]
           ELSE rd' = [rd EXCEPT
                         !.pos = @ + 1,
                         !.mid = FALSE,
                         !.trades = IF rd.mid THEN @
                                    ELSE @ \o load_recent_trades_v4(<<line>>, rd.nowMs)]
    /\ UNCHANGED <<log, win, notSnap>>

\* load_recent_trades() meets the end of the file and returns; main() calls
\* aggregate(trades) and select_leaders(stats)
ReadEof ==
    /\ rd.pc = "reading"
    /\ \/ rd.pos = Len(log)
       \/ rd.pos = Len(log) - 1 /\ rd.mid /\ LastIsTorn(log)
    /\ LET stats == aggregate(rd.trades, <<>>)
           sel   == select_leaders(V4Stats(stats))
       IN  rd' = [pc |-> "done", nowMs |-> rd.nowMs, trades |-> rd.trades,
                  stats |-> stats, mode |-> sel.mode, leaders |-> sel.leaders]
    /\ UNCHANGED <<log, win, notSnap>>

SnapNext ==
    \/ WriterAppend
    \/ WriterAppendBegin
    \/ WriterAppendEnd
    \/ ReadOpen
    \/ ReadLine
    \/ ReadEof

(***************************************************************************)
(* REAL-TIME COLLECTOR: CONNECTION LOOP                                    *)
(* trade_collector_rtds.py: GracefulKiller, build_subscribe_payload,       *)
(* RTDSTradeCollector._start_ping_loop, _on_open, _on_error, _on_close,    *)
(* run_forever                                                             *)
(***************************************************************************)

notConn == <<wmVars, tierVars, winVars, rtdsVars, fetchVars, runs, snapVars, thrVars>>

\* build_subscribe_payload() of the default Subscription
build_subscribe_payload ==
    [action |-> "subscribe",
     subscriptions |-> <<[topic |-> "activity", type |-> "trades"]>>]

\* a backoff that is doubled without a ceiling
NextBackoffUncapped(b) == b * 2

\* run_forever(): backoff = min(self.reconnect_max_s, backoff * 2)
NextBackoff(b) == IF b * 2 < reconnect_max_s THEN b * 2 ELSE reconnect_max_s

\* GracefulKiller._handle(): SIGINT or SIGTERM sets the flag, whatever the
\* main thread is doing
StopRequest ==
    /\ ~stop_requested
    /\ stop_requested' = TRUE
    /\ UNCHANGED <<c_pc, backoff, waited, connected, sent, ping_pc, notConn>>

\* run_forever(): _start_ping_loop(); backoff = self.reconnect_min_s
RunForeverStart ==
    /\ c_pc = "idle"
    /\ ping_pc' = "test"
    /\ backoff' = reconnect_min_s
    /\ c_pc' = "test"
    /\ UNCHANGED <<waited, stop_requested, connected, sent, notConn>>

\* run_forever(): while not self._killer.stop_requested
LoopTest ==
    /\ c_pc = "test"
    /\ c_pc' = IF stop_requested THEN "returned" ELSE "connect"
    /\ UNCHANGED <<backoff, waited, stop_requested, connected, sent, ping_pc, notConn>>

\* run_forever(): a new WebSocketApp, self._ws.run_forever(); the connection
\* opens and _on_open() sets _connected and sends the subscription
ConnectOpen ==
    /\ c_pc = "connect"
    /\ connected' = TRUE
    /\ sent' = <<build_subscribe_payload>>
    /\ c_pc' = "running"
    /\ UNCHANGED <<backoff, waited, stop_requested, ping_pc, notConn>>

\* run_forever(): a new WebSocketApp, self._ws.run_forever(); the connection
\* cannot be opened, _on_error() clears _connected and run_forever returns
ConnectFail ==
    /\ c_pc = "connect"
    /\ connected' = FALSE
    /\ sent' = <<>>
    /\ c_pc' = "ended"
    /\ UNCHANGED <<backoff, waited, stop_requested, ping_pc, notConn>>

\* the connection ends: _on_error() / _on_close() clear _connected and
\* self._ws.run_forever() returns or raises
Disconnect ==
    /\ c_pc = "running"
    /\ connected' = FALSE
    /\ c_pc' = "ended"
    /\ UNCHANGED <<backoff, waited, stop_requested, sent, ping_pc, notConn>>

\* run_forever(): if self._killer.stop_requested: break
AfterRun ==
    /\ c_pc = "ended"
    /\ c_pc' = IF stop_requested THEN "returned" ELSE "sleep"
    /\ UNCHANGED <<backoff, waited, stop_requested, connected, sent, ping_pc, notConn>>

\* run_forever(): time.sleep(backoff); backoff = min(reconnect_max_s, backoff * 2)
Sleep ==
    /\ c_pc = "sleep"
    /\ waited' = backoff
    /\ backoff' = NextBackoff(backoff)
    /\ c_pc' = "test"
    /\ UNCHANGED <<stop_requested, connected, sent, ping_pc, notConn>>

\* _start_ping_loop()._loop: while not stop_requested: a ping when connected
\* (no effect on the collector), then time.sleep(ping_interval_s)
PingLoop ==
    /\ ping_pc \in {"test", "sleep"}
    /\ ping_pc' = IF ping_pc = "sleep" THEN "test"
                  ELSE IF stop_requested THEN "exited" ELSE "sleep"
    /\ UNCHANGED <<c_pc, backoff, waited, stop_requested, connected, sent, notConn>>

ConnNext ==
    \/ StopRequest
    \/ RunForeverStart
    \/ LoopTest
    \/ ConnectOpen
    \/ ConnectFail
    \/ Disconnect
    \/ AfterRun
    \/ Sleep
    \/ PingLoop

(***************************************************************************)
(* PAGINATED FETCH                                                         *)
(* leader_finder_v2.py: parse_trade_datetime_utc, fetch_trades_global_24h, *)
(* aggregate_wallets, main                                                 *)
(***************************************************************************)

\* the page size and the last offset asked for (1000 and 50_000 in the code,
\* scaled to the size of the feed below)
TRADES_LIMIT == 2
TRADES_MAX_OFFSET == 6

\* a numeric timestamp below this is in seconds, else in milliseconds
\* (10_000_000_000 in the code, scaled to the clock of the feed below)
TS_SECONDS_BELOW == 10000

\* cutoff = utc_now() - 24h, in ms on the clock of the feed
CutoffUtc == 5000 * 1000

\* the trades the Data API may hold, in the order they happened: one before
\* the cutoff (timestamp in seconds), one exactly at the cutoff (timestamp in
\* milliseconds), one without any time, one with createdAt only, one recent,
\* one recent without any wallet field
FeedTrades ==
    << [transactionHash |-> "0xf0", proxyWallet |-> "0xb", conditionId |-> "c1",
        size |-> 2, price |-> 1, timestamp |-> 4998],
       [transactionHash |-> "0xf1", proxyWallet |-> "0xb", conditionId |-> "c1",
        size |-> 3, price |-> 1, timestamp |-> 4999],
       [transactionHash |-> "0xf2", proxyWallet |-> "0xA", conditionId |-> "c1",
        size |-> 500, price |-> 2, timestamp |-> 5000000],
       [transactionHash |-> "0xf3", proxyWallet |-> "0xa", conditionId |-> "c2",
        size |-> 1, price |-> 1],
       [transactionHash |-> "0xf4", wallet |-> "0xa", conditionId |-> "c2",
        size |-> 5, price |-> 1, createdAt |-> "1970-01-01T01:23:21Z"],
       [transactionHash |-> "0xf5", proxyWallet |-> "0xb", conditionId |-> "c3",
        size |-> 7, price |-> 1, timestamp |-> 5002],
       [transactionHash |-> "0xf6", conditionId |-> "c1",
        size |-> 9, price |-> 1, timestamp |-> 5003],
       [transactionHash |-> "0xf7", proxyWallet |-> "0xa", conditionId |-> "c3",
        size |-> 4, price |-> 1, timestamp |-> 5004],
       [transactionHash |-> "0xf8", proxyWallet |-> "0xb", conditionId |-> "c2",
        size |-> 6, price |-> 1, timestamp |-> 5005] >>

\* datetime.fromisoformat(): the instant (ms) of a well-formed text
fromisoformat(v) ==
    IF v = "1970-01-01T01:23:21Z" THEN [ok |-> TRUE, dt |-> 5001 * 1000]
    ELSE [ok |-> FALSE]

\* parse_trade_datetime_utc(): the instant in ms, or None
parse_trade_datetime_utc(trade) ==
    IF "timestamp" \in DOMAIN trade
    THEN IF trade.timestamp < TS_SECONDS_BELOW
         THEN [ok |-> TRUE, dt |-> trade.timestamp * 1000]
         ELSE [ok |-> TRUE, dt |-> trade.timestamp]
    ELSE IF "createdAt" \in DOMAIN trade /\ fromisoformat(trade.createdAt).ok
         THEN fromisoformat(trade.createdAt)
    ELSE IF "created_at" \in DOMAIN trade /\ fromisoformat(trade.created_at).ok
         THEN fromisoformat(trade.created_at)
    ELSE [ok |-> FALSE]

\* the elements of S, greatest first
Newest(S) ==
    [k \in 1..Cardinality(S) |-> CHOOSE x \in S : Cardinality({y \in S : y > x}) = k - 1]

\* the elements of S, least first
Oldest(S) ==
    [k \in 1..Cardinality(S) |-> CHOOSE x \in S : Cardinality({y \in S : y < x}) = k - 1]

\* GET /trades?limit=&offset=[&sort=timestamp&order=desc]: the slice of the
\* trades the API holds at the time of the request, newest first when it is
\* asked to sort and does, in its own order (oldest first) otherwise
Page(fd, off, sorted) ==
    LET order == IF sorted /\ fd.sorts THEN Newest(fd.held) ELSE Oldest(fd.held)
        last  == IF off + TRADES_LIMIT < Len(order) THEN off + TRADES_LIMIT ELSE Len(order)
    IN  [k \in 1..(IF last > off THEN last - off ELSE 0) |-> FeedTrades[order[off + k]]]

\* a normalize_wallet that files a trade without wallet under a sentinel
normalize_wallet_sentinel(trade) ==
    IF "proxyWallet" \in DOMAIN trade THEN [ok |-> TRUE, w |-> Lower(trade.proxyWallet)]
    ELSE IF "wallet" \in DOMAIN trade THEN [ok |-> TRUE, w |-> Lower(trade.wallet)]
    ELSE IF "maker" \in DOMAIN trade THEN [ok |-> TRUE, w |-> Lower(trade.maker)]
    ELSE IF "taker" \in DOMAIN trade THEN [ok |-> TRUE, w |-> Lower(trade.taker)]
    ELSE [ok |-> TRUE, w |-> "unknown"]

\* normalize_wallet(): the first of proxyWallet / wallet / maker / taker, in
\* lower case, or None
normalize_wallet(trade) ==
    IF "proxyWallet" \in DOMAIN trade THEN [ok |-> TRUE, w |-> Lower(trade.proxyWallet)]
    ELSE IF "wallet" \in DOMAIN trade THEN [ok |-> TRUE, w |-> Lower(trade.wallet)]
    ELSE IF "maker" \in DOMAIN trade THEN [ok |-> TRUE, w |-> Lower(trade.maker)]
    ELSE IF "taker" \in DOMAIN trade THEN [ok |-> TRUE, w |-> Lower(trade.taker)]
    ELSE [ok |-> FALSE]

\* aggregate_wallets(): the entries in dict insertion order, with the fields
\* the selection reads; active is the set of conditionIds of active_meta
RECURSIVE aggregate_wallets(_, _, _)
aggregate_wallets(trades, active, ws) ==
    IF trades = <<>> THEN ws
    ELSE LET t    == Head(trades)
             rest == Tail(trades)
         IN  IF "conditionId" \notin DOMAIN t THEN aggregate_wallets(rest, active, ws)
             ELSE IF t.conditionId \notin active THEN aggregate_wallets(rest, active, ws)
             ELSE IF ~normalize_wallet(t).ok THEN aggregate_wallets(rest, active, ws)
             ELSE IF ~parse_trade_datetime_utc(t).ok THEN aggregate_wallets(rest, active, ws)
             ELSE LET w  == normalize_wallet(t).w
                      i  == IndexOf(ws, w)
                      e0 == IF i = 0
                            THEN [wallet |-> w, volume_usdc |-> 0, trade_count |-> 0,
                                  distinct_markets |-> {}, distinct_markets_count |-> 0,
                                  categories |-> {}]
                            ELSE ws[i]
                      ms == e0.distinct_markets \cup {t.conditionId}
                      e1 == [wallet                 |-> w,
                             volume_usdc            |-> e0.volume_usdc + t.size * t.price,
                             trade_count            |-> e0.trade_count + 1,
                             distinct_markets       |-> ms,
                             distinct_markets_count |-> Cardinality(ms),
                             categories             |-> e0.categories \cup
                                 {get_category(MarketOf(t.conditionId))}]
                  IN  aggregate_wallets(rest, active,
                                        IF i = 0 THEN Append(ws, e1)
                                        ELSE [ws EXCEPT ![i] = e1])

FetchZero ==
    /\ collected = <<>>
    /\ offset = 0
    /\ use_sort = TRUE
    /\ active_meta = {}

\* main() enters fetch_trades_global_24h; the API holds some trades
FetchInit ==
    /\ feed \in [held : SUBSET (1..Len(FeedTrades)), sorts : BOOLEAN]
    /\ pc_fetch = "loop"
    /\ FetchZero

FetchIdle ==
    /\ feed = [held |-> {}, sorts |-> TRUE]
    /\ pc_fetch = "idle"
    /\ FetchZero

\* a trade happens while the pages are being fetched
FeedArrival ==
    /\ pc_fetch = "loop"
    /\ \E n \in 1..Len(FeedTrades) :
         /\ \A m \in feed.held : m < n
         /\ feed' = [feed EXCEPT !.held = @ \cup {n}]
    /\ UNCHANGED <<pc_fetch, collected, offset, use_sort, active_meta, tierVars, notFetch>>

\* a filter that drops the trade made exactly at the cutoff
RecentOfStrict(batch) ==
    SelectSeq(batch, LAMBDA t :
        /\ parse_trade_datetime_utc(t).ok
        /\ parse_trade_datetime_utc(t).dt > CutoffUtc)

\* the loop "for t in batch" of fetch_trades_global_24h: the trades appended
\* to collected
RecentOf(batch) ==
    SelectSeq(batch, LAMBDA t :
        /\ parse_trade_datetime_utc(t).ok
        /\ parse_trade_datetime_utc(t).dt >= CutoffUtc)

\* a loop that asks for the same page again
NextOffsetStuck(off) == off

\* offset += TRADES_LIMIT
NextOffset(off) == off + TRADES_LIMIT

\* one turn of the while loop of fetch_trades_global_24h, status 200
FetchRequest ==
    /\ pc_fetch = "loop"
    /\ LET batch    == Page(feed, offset, use_sort)
           dt_first == parse_trade_datetime_utc(batch[1])
           dt_last  == parse_trade_datetime_utc(batch[Len(batch)])
           recent   == RecentOf(batch)
           got      == collected \o recent
       IN  IF batch = <<>>
           THEN /\ pc_fetch' = "done"
                /\ UNCHANGED <<collected, offset, use_sort>>
           ELSE IF use_sort /\ dt_last.ok /\ dt_last.dt < CutoffUtc
           THEN /\ pc_fetch' = "done"
                /\ collected' = got
                /\ UNCHANGED <<offset, use_sort>>
           ELSE IF offset = 0 /\ use_sort /\ dt_first.ok /\ dt_first.dt < CutoffUtc
           THEN /\ use_sort' = FALSE
                /\ collected' = <<>>
                /\ offset' = 0
                /\ pc_fetch' = "loop"
           ELSE IF /\ ~use_sort
                   /\ offset >= TRADES_LIMIT * 3
                   /\ Len(got) = 0
                   /\ recent = <<>>
           THEN /\ pc_fetch' = "done"
                /\ collected' = got
                /\ UNCHANGED <<offset, use_sort>>
           ELSE /\ collected' = got
                /\ offset' = NextOffset(offset)
                /\ pc_fetch' = IF NextOffset(offset) <= TRADES_MAX_OFFSET
                               THEN "loop" ELSE "done"
                /\ UNCHANGED use_sort
    /\ UNCHANGED <<feed, active_meta, tierVars, notFetch>>

\* a request answered with a status other than 200: RuntimeError
FetchFail ==
    /\ pc_fetch = "loop"
    /\ pc_fetch' = "error"
    /\ UNCHANGED <<feed, collected, offset, use_sort, active_meta, tierVars, notFetch>>

\* main() after the fetch: nothing to report without trades; else the active
\* markets are looked up on Gamma, the wallets aggregated and classified
V2MainAfterFetch ==
    /\ pc_fetch = "done"
    /\ pc_fetch' = "reported"
    /\ IF collected = <<>>
       THEN /\ wallets' = <<>>
            /\ active_meta' = {}
            /\ v2_out' = [stages |-> <<"no_trades">>, leaders |-> <<>>,
                          whales |-> <<>>, qualified |-> <<>>]
       ELSE \E active \in SUBSET {collected[k].conditionId : k \in 1..Len(collected)} :
            /\ active_meta' = active
            /\ wallets' = aggregate_wallets(collected, active, <<>>)
            /\ v2_out' = V2Main(wallets')
    /\ UNCHANGED <<feed, collected, offset, use_sort, v4_out, notFetch>>

FetchNext == FeedArrival \/ FetchRequest \/ FetchFail \/ V2MainAfterFetch

(***************************************************************************)
(* Specifications                                                          *)
(***************************************************************************)
Init == WMInit /\ TierIdle /\ WinInit /\ RtdsInit /\ FetchIdle

Next == WMNext

\* the three watermark scripts running without being interrupted
Spec == Init /\ [][Next]_vars

NextRestart == WMNext \/ WMRestartNext

\* the same, with the process killed and restarted at any time
SpecRestart == Init /\ [][NextRestart]_vars

\* the three scripts, one of which is killed once while it saves its state
NextSaveKilled == WMNext \/ WMSaveKilledNext
SpecSaveKilled == Init /\ [][NextSaveKilled]_vars

\* leader_finder_v4.py started by two processes
InitRuns == Init /\ prog = "v4"
SpecRuns == InitRuns /\ [][RunsNext]_vars

InitTier == WMIdle /\ TierInit /\ WinInit /\ RtdsInit /\ FetchIdle

\* the classification of one aggregation by v2 and by v4
SpecTier == InitTier /\ [][TierNext]_vars

InitRanked ==
    /\ WMIdle /\ WinInit /\ RtdsInit /\ FetchIdle
    /\ wallets \in RankedInputs
    /\ v2_out = NotRun
    /\ v4_out = NotRun

\* the classification of an aggregation with more wallets in a tier than the
\* leader list may hold
SpecRanked == InitRanked /\ [][TierNext]_vars

\* an empty trade log, no collector message handled, no batch job run yet
InitLog == WMIdle /\ TierIdle /\ WinInit /\ RtdsInit /\ FetchIdle

\* the trade log growing and being read by the batch jobs
SpecWindow == InitLog /\ [][WinNext]_vars

\* the three scripts, an append of trade_collector.py failing now and then
SpecPollAppendFails == Init /\ [][NextPollAppendFails]_vars

\* two threads calling add_if_new() of one LruSeen
SpecThreads == InitLog /\ [][ThrNext]_vars

\* leader_finder_v4 reading the log while the collector appends to it
SpecSnapshot == InitLog /\ [][SnapNext]_vars

\* the connection loop of the real-time collector, a stop request arriving
\* at any moment
SpecConn == InitLog /\ [][ConnNext]_vars

\* the same, the main thread always taking its next step; nothing makes the
\* server end a connection, a signal arrive or the ping thread run
SpecConnLive ==
    /\ SpecConn
    /\ WF_vars(RunForeverStart)
    /\ WF_vars(LoopTest)
    /\ WF_vars(ConnectOpen \/ ConnectFail)
    /\ WF_vars(AfterRun)
    /\ WF_vars(Sleep)

\* the real-time collector handling messages, an append to the log failing
\* now and then
SpecAppendFails == InitLog /\ [][RtdsAppendFailsNext]_vars

\* the real-time collector handling messages, with one restart
SpecDedup == InitLog /\ [][RtdsNext]_vars

IngestNext == WinNext \/ LogAppendMalformed

\* the batch jobs reading a log that may hold malformed records
SpecIngest == InitLog /\ [][IngestNext]_vars

CollectNext == RtdsNext \/ V4ReadWindow

\* the same, with leader_finder_v4 reading the log the collector writes
SpecCollect == InitLog /\ [][CollectNext]_vars

InitFetch == WMIdle /\ TierIdle /\ WinInit /\ RtdsInit /\ FetchInit

\* leader_finder_v2 fetching the pages of a live feed, then aggregating
SpecFetch == InitFetch /\ [][FetchNext]_vars

\* the same, the loop of fetch_trades_global_24h being run as long as it can
SpecFetchLive == SpecFetch /\ WF_vars(FetchRequest)

\* leader_finder_v2 fetching the pages of a feed that does not change
PagingNext == FetchRequest \/ FetchFail \/ V2MainAfterFetch
SpecPaging == InitFetch /\ [][PagingNext]_vars

\* the three aggregators: leader_finder_v2 fetching and aggregating, or
\* leader_finder_v3 / v4 reading the log (they share no state, so they are
\* run one at a time)
InitAggregate == InitLog \/ InitFetch

AggregateNext == FetchNext \/ (pc_fetch = "idle" /\ WinNext)

SpecAggregate == InitAggregate /\ [][AggregateNext]_vars

(***************************************************************************)
(* Claims about the watermark                                              *)
(***************************************************************************)

C1_Monotone ==
    /\ \A w \in Wallets : /\ Get(last_seen', w) >= Get(last_seen, w)
                          /\ Get(state_file', w) >= Get(state_file, w)
                          /\ Get(copied_file', w) >= Get(copied_file, w)
    /\ last_seen_ts' >= last_seen_ts

\* no emitted trade is at or below the watermark current when it is examined:
\* above the watermark the call started with and, where the watermark moves
\* inside the loop, above the trade emitted just before it
C1_NoStaleEmit ==
    \A c \in calls : \A k \in 1..Len(c.out) :
        /\ TsNumeric(c.out[k]) > c.before
        /\ c.after >= c.before
        /\ (prog # "collector" /\ k > 1) => TsNumeric(c.out[k]) > TsNumeric(c.out[k - 1])

C1_Expected ==
    << [out |-> <<TradeById("T1")>>, wm |-> 10],
       [out |-> <<TradeById("T2")>>, wm |-> 20],
       [out |-> <<>>, wm |-> 20] >>

C1_Scenario == (scn # ScnOff) => \A k \in 1..Len(scn) : scn[k] = C1_Expected[k]

\* C1: for any sequence of diff calls the watermark never decreases, no trade
\* at or below the current watermark is emitted, and T1 (t=10), T2 (t=20),
\* T3 (t=15) delivered in three successive calls yield [T1], [T2], [] with
\* watermark 10, 20, 20
C1_WatermarkRoundTrip == [](C1_NoStaleEmit /\ C1_Scenario) /\ [][C1_Monotone]_vars

\* the copy trader has been through the three calls of the scenario
C1_Witness == prog = "copy_trader" /\ scn # ScnOff /\ Len(scn) = 3

\* C2: exactly-once delivery: every diff call returns every candidate trade
\* above the watermark the call started with, whatever the order of the
\* batch, and no trade is returned by two calls (stated for copy_trader.py)
C2_ExactlyOnce ==
    prog = "copy_trader" =>
        /\ \A c \in calls :
             Range(c.out) = {t \in Range(c.batch) : TsNumeric(t) > c.before}
        /\ \A i \in WMIds : emitCnt[i] <= 1

\* C3: after the process is killed at any point and restarted, no trade that
\* was already emitted is emitted again
C3_NoReplayAfterRestart == \A i \in WMIds : emitCnt[i] <= 1


(***************************************************************************)
(* Claims about the tier classifier                                        *)
(***************************************************************************)

MeetsWhaleV2(e) ==
    /\ e.volume_usdc >= MIN_WHALE_VOLUME_USDC
    /\ e.trade_count >= MIN_WHALE_TRADES
    /\ Cardinality(e.distinct_markets) >= MIN_WHALE_DISTINCT_MARKETS

MeetsTraderV2(e) ==
    /\ e.volume_usdc >= MIN_TRADER_VOLUME_USDC
    /\ e.trade_count >= MIN_TRADER_TRADES
    /\ Cardinality(e.distinct_markets) >= MIN_TRADER_DISTINCT_MARKETS

MeetsWhaleV4(e) ==
    /\ e.volume_usdc >= WHALE_VOLUME
    /\ e.trade_count >= WHALE_TRADES
    /\ Cardinality(e.distinct_markets) >= WHALE_MARKETS

MeetsTraderV4(e) ==
    /\ e.volume_usdc >= TRADER_VOLUME
    /\ e.trade_count >= TRADER_TRADES
    /\ Cardinality(e.distinct_markets) >= TRADER_MARKETS

EntryOf(name) == wallets[CHOOSE i \in 1..Len(wallets) : wallets[i].wallet = name]

\* the categories Gamma really gives for the wallet's markets
RealCategories(e) ==
    {MarketOf(c).category :
        c \in {d \in e.distinct_markets :
                  "category" \in DOMAIN MarketOf(d) /\ MarketOf(d).category # ""}}

NoCategoryData(e) == RealCategories(e) = {}

SortedDesc(names) ==
    \A k \in 1..Len(names) : \A l \in k..Len(names) :
        EntryOf(names[k]).volume_usdc >= EntryOf(names[l]).volume_usdc

\* C4: if any wallet satisfies the whale thresholds, the qualified stage does
\* not run and every selected wallet of the leader list and of the report is
\* a whale (v2 and v4)
C4_WhalesExcludeQualified ==
    /\ (v2_out # NotRun /\ \E i \in 1..Len(wallets) : MeetsWhaleV2(wallets[i])) =>
          /\ v2_out.stages = <<"whales">>
          /\ v2_out.qualified = <<>>
          /\ v2_out.leaders # <<>>
          /\ \A k \in 1..Len(v2_out.leaders) : MeetsWhaleV2(EntryOf(v2_out.leaders[k]))
          /\ \A k \in 1..Len(v2_out.whales) : MeetsWhaleV2(v2_out.whales[k])
    /\ (v4_out # NotRun /\ \E i \in 1..Len(wallets) : MeetsWhaleV4(wallets[i])) =>
          /\ v4_out.mode = "WHALES"
          /\ v4_out.leaders # <<>>
          /\ \A k \in 1..Len(v4_out.leaders) : MeetsWhaleV4(EntryOf(v4_out.leaders[k]))

\* v2 has classified a window holding a whale and a wallet that only meets
\* the qualified thresholds, in an allowed category
C4_Witness ==
    /\ v2_out # NotRun
    /\ \E i, j \in 1..Len(wallets) :
          /\ MeetsWhaleV2(wallets[i])
          /\ ~MeetsWhaleV2(wallets[j])
          /\ MeetsTraderV2(wallets[j])
          /\ "Politics" \in wallets[j].categories

\* C5: if no wallet satisfies the whale thresholds but at least one satisfies
\* the qualified thresholds (with category overlap or no category data), the
\* selected wallets are the qualified tier and are listed in descending order
\* of volume (v2 and v4)
C5_QualifiedSortedDesc ==
    /\ ( /\ v2_out # NotRun
         /\ \A i \in 1..Len(wallets) : ~MeetsWhaleV2(wallets[i])
         /\ \E i \in 1..Len(wallets) :
               /\ MeetsTraderV2(wallets[i])
               /\ (NoCategoryData(wallets[i]) \/
                   RealCategories(wallets[i]) \cap ALLOWED_CATEGORIES_STEP2 # {}) ) =>
          /\ v2_out.whales = <<>>
          /\ v2_out.leaders = NamesOf(v2_out.qualified)
          /\ SortedDesc(v2_out.leaders)
    /\ ( /\ v4_out # NotRun
         /\ \A i \in 1..Len(wallets) : ~MeetsWhaleV4(wallets[i])
         /\ \E i \in 1..Len(wallets) : MeetsTraderV4(wallets[i]) ) =>
          /\ v4_out.mode = "TRADERS"
          /\ SortedDesc(v4_out.leaders)

\* C6: in the qualified stage a wallet that meets the qualified thresholds is
\* excluded by the category gate only if it has category information none of
\* which is allowed; without any category information it passes
C6_NoCategoryPassesGate ==
    (v2_out.stages = <<"whales", "qualified">>) =>
        \A i \in 1..Len(wallets) :
            MeetsTraderV2(wallets[i]) =>
                ( (\E k \in 1..Len(v2_out.leaders) : v2_out.leaders[k] = wallets[i].wallet)
                  <=> (NoCategoryData(wallets[i]) \/
                       RealCategories(wallets[i]) \cap ALLOWED_CATEGORIES_STEP2 # {}) )


(***************************************************************************)
(* Claims about the window                                                 *)
(***************************************************************************)

\* the events of the log: the records that parse and carry a timestamp
RECURSIVE Events(_)
Events(lines) ==
    IF lines = <<>> THEN <<>>
    ELSE IF IsJson(Head(lines)) /\ "timestamp" \in DOMAIN Head(lines).json
         THEN <<Head(lines).json>> \o Events(Tail(lines))
         ELSE Events(Tail(lines))

\* the lines a window would be stored as
AsLines(trades) == [i \in 1..Len(trades) |-> [json |-> trades[i]]]

Reload(trades, p, nowMs) ==
    IF p = "v4" THEN load_recent_trades_v4(AsLines(trades), nowMs)
    ELSE load_recent_trades_v3(AsLines(trades), nowMs)

\* C7: compact(now) leaves exactly the events with timestamp >= now -
\* windowDuration (an event exactly at the cutoff is kept), the aggregator
\* reads the compacted window only, and compacting twice with the same now
\* changes nothing
C7_CompactExactIdempotent ==
    (win # NotRead) =>
        /\ win.trades = SelectSeq(Events(log),
                                  LAMBDA t : t.timestamp >= win.nowMs - 86400000)
        /\ win.agg_in = win.trades
        /\ \A k \in 1..Len(win.agg_in) : win.agg_in[k].timestamp >= win.nowMs - 86400000
        /\ Reload(win.trades, win.prog, win.nowMs) = win.trades

\* v4 has read a log that holds an event exactly at the cutoff and an older
\* one, and kept the first only
C7_Witness ==
    /\ win # NotRead
    /\ win.prog = "v4"
    /\ \E k \in 1..Len(log) : IsJson(log[k]) /\ "timestamp" \in DOMAIN log[k].json
                               /\ log[k].json.timestamp = win.nowMs - 86400000
    /\ \E k \in 1..Len(log) : IsJson(log[k]) /\ "timestamp" \in DOMAIN log[k].json
                               /\ log[k].json.timestamp = win.nowMs - 86400000 - 1
    /\ Len(win.trades) = 1

(***************************************************************************)
(* Claims about the deduplicator                                           *)
(***************************************************************************)

IdentityFields ==
    {"transactionHash", "timestamp", "proxyWallet", "conditionId", "side",
     "size", "price"}

\* two records have the same identity: each identity field is absent from
\* both or has the same value in both
SameIdentity(r1, r2) ==
    \A k \in IdentityFields :
        /\ (k \in DOMAIN r1) <=> (k \in DOMAIN r2)
        /\ (k \in DOMAIN r1) => r1[k] = r2[k]

SameRun(i, j) == (i > run_from) <=> (j > run_from)

C9_NoFalseNegative ==
    (last_msg.result = "duplicate") =>
        \E i \in 1..Len(log) : SameIdentity(log[i].json, last_msg.rec)

(***************************************************************************)
(* Claims about the paginated fetch                                        *)
(***************************************************************************)

\* the trades of wallet w that the API holds
HeldOf(w) ==
    {n \in feed.held : normalize_wallet(FeedTrades[n]).ok
                       /\ normalize_wallet(FeedTrades[n]).w = w}

RECURSIVE SumVolume(_)
SumVolume(S) ==
    IF S = {} THEN 0
    ELSE LET n == CHOOSE x \in S : TRUE
         IN  FeedTrades[n].size * FeedTrades[n].price + SumVolume(S \ {n})

\* C10: a trade returned on two overlapping pages of one fetch is admitted
\* once, and counts once in its wallet's trade count and volume
C10_OverlapAdmittedOnce ==
    /\ \A i, j \in 1..Len(collected) : i < j => collected[i] # collected[j]
    /\ (pc_fetch = "reported") =>
          \A k \in 1..Len(wallets) :
              /\ wallets[k].trade_count <= Cardinality(HeldOf(wallets[k].wallet))
              /\ wallets[k].volume_usdc <= SumVolume(HeldOf(wallets[k].wallet))

(***************************************************************************)
(* Claims about the collector and the batch job together                   *)
(***************************************************************************)

\* the trades of wallet w in the log, each identity once
LoggedOf(w) ==
    {log[i].json : i \in {k \in 1..Len(log) :
                             "proxyWallet" \in DOMAIN log[k].json
                             /\ log[k].json.proxyWallet = w}}

\* C11: a trade delivered once before and once after a restart of the
\* collector is recorded once in the trade log and counted once by the
\* aggregation of leader_finder_v4
C11_OnceAcrossRestart ==
    /\ \A i, j \in 1..Len(log) :
         (i <= run_from /\ run_from < j)
             => ~SameIdentity(log[i].json, log[j].json)
    /\ (win # NotRead) =>
          \A k \in 1..Len(win.stats) :
              win.stats[k].trade_count <= Cardinality(LoggedOf(win.stats[k].wallet))

(***************************************************************************)
(* Claims about the aggregation                                            *)
(***************************************************************************)

\* sum of size * price over the trades at the indices I
RECURSIVE SumNotional(_, _)
SumNotional(trades, I) ==
    IF I = {} THEN 0
    ELSE LET i == CHOOSE x \in I : TRUE
         IN  trades[i].size * trades[i].price + SumNotional(trades, I \ {i})

\* the trades of the window with proxyWallet w
KeyedBy(trades, w) ==
    {i \in 1..Len(trades) : "proxyWallet" \in DOMAIN trades[i]
                            /\ trades[i].proxyWallet = w}

\* the collected trades of wallet w (any of the wallet fields, lower case)
CollectedOf(w) ==
    {i \in 1..Len(collected) : normalize_wallet(collected[i]).ok
                               /\ normalize_wallet(collected[i]).w = w}

\* aggregate_wallets() admits a trade: market known and active, time parses
Admitted(t) ==
    /\ "conditionId" \in DOMAIN t
    /\ t.conditionId \in active_meta
    /\ parse_trade_datetime_utc(t).ok

HasWalletField(t) == DOMAIN t \cap {"proxyWallet", "wallet", "maker", "taker"} # {}

\* C13: a trade with no wallet identity is skipped by the aggregator: no
\* entry stands for it, and the stats are those of the window without it
C13_NoWalletSkipped ==
    /\ (win # NotRead) =>
          LET named == SelectSeq(win.agg_in, LAMBDA t : "proxyWallet" \in DOMAIN t)
          IN  /\ win.stats = IF win.prog = "v4" THEN aggregate(named, <<>>)
                             ELSE analyze_trades(named)
              /\ \A k \in 1..Len(win.stats) :
                    \E i \in 1..Len(named) : named[i].proxyWallet = win.stats[k].wallet
    /\ (pc_fetch = "reported") =>
          LET named == SelectSeq(collected, HasWalletField)
          IN  /\ wallets = aggregate_wallets(named, active_meta, <<>>)
              /\ \A k \in 1..Len(wallets) : wallets[k].wallet \in {"0xa", "0xb"}

\* v2 has aggregated trades among which one, on an active market, has no
\* wallet field
C13_Witness ==
    /\ pc_fetch = "reported"
    /\ wallets # <<>>
    /\ \E i \in 1..Len(collected) :
          ~HasWalletField(collected[i]) /\ collected[i].conditionId \in active_meta

(***************************************************************************)
(* Claims about the runs of the batch jobs                                 *)
(***************************************************************************)

\* C14: an empty window yields an empty result in both stages (no whales, no
\* qualified traders, empty leader list), and the run completes instead of
\* raising an error
C14_EmptyWindowEmptyResult ==
    /\ (pc_fetch = "done" /\ collected = <<>>) => ENABLED V2MainAfterFetch
    /\ (pc_fetch = "reported" /\ (collected = <<>> \/ wallets = <<>>)) =>
          /\ v2_out.leaders = <<>>
          /\ v2_out.whales = <<>>
          /\ v2_out.qualified = <<>>
    /\ (win # NotRead /\ win.agg_in = <<>>) =>
          /\ win.stats = <<>>
          /\ (win.prog = "v4") => win.leaders = <<>>

\* leader_finder_v2 has run to its end on a fetch that collected nothing
C14_Witness ==
    /\ pc_fetch = "reported"
    /\ collected = <<>>
    /\ v2_out.stages = <<"no_trades">>

\* C15: every run of the leader-discovery job ends having written the leader
\* list and the report, whatever happened during the run
C15_RunEndsWithReport ==
    (pc_fetch \in {"reported", "error"}) =>
        /\ v2_out # NotRun
        /\ "leaders" \in DOMAIN v2_out
        /\ "whales" \in DOMAIN v2_out

\* the well-formed records of the log that are in the window of the run
WellFormedRecent ==
    {i \in 1..Len(log) :
        /\ "json" \in DOMAIN log[i]
        /\ "bad" \notin DOMAIN log[i].json
        /\ "timestamp" \in DOMAIN log[i].json
        /\ log[i].json.timestamp >= win.nowMs - 86400000}

\* C16: a malformed record is dropped on its own: the run is not aborted
\* and the other records of the log are not lost
C16_MalformedDroppedAlone ==
    (win # NotRead) =>
        /\ "error" \notin DOMAIN win
        /\ \A i \in WellFormedRecent :
              \E k \in 1..Len(win.trades) : win.trades[k] = log[i].json

\* C17: a page request that fails is retried and at worst skipped for the
\* cycle; a failing page never aborts the run
C17_FailedPageNotFatal ==
    [][pc_fetch = "loop" => pc_fetch' \in {"loop", "done"}]_vars


\* C18: a persisted state file that is corrupt when it is read is discarded:
\* no run ends with the exception of the read, and the memory of the process
\* never holds the unreadable content (it starts from the empty state).
C18_CorruptStateDiscarded ==
    /\ "error" \notin DOMAIN v4_out
    /\ last_seen # NotJson

\* C19: the watermark files are written atomically: whenever the process is
\* killed during a write, the file holds a complete content, never a
\* truncated or partly written one.
C19_WritesAtomic ==
    /\ state_file # NotJson
    /\ copied_file # NotJson

\* C20: two runs of leader_finder_v4 never overlap: while one process is
\* between reading copied_trades.json and writing it back, no other process
\* has read it too.
C20_SingleFlight ==
    \A a, b \in RunIds :
        a # b => ~(runs[a].pc = "computed" /\ runs[b].pc = "computed")

(***************************************************************************)
(* Claims about the ranking of the leader list                             *)
(***************************************************************************)

\* the wallets of the tier a run selects: the whales if there are any, the
\* qualified wallets otherwise
TierOf(isWhale(_), isTrader(_)) ==
    LET ws == {wallets[i] : i \in 1..Len(wallets)}
    IN  IF \E w \in ws : isWhale(w) THEN {w \in ws : isWhale(w)}
        ELSE {w \in ws : isTrader(w)}

\* names is the top TOP_K of tier by volume, highest first
IsTopK(names, tier) ==
    /\ Len(names) <= TOP_K
    /\ Len(names) = (IF Cardinality(tier) < TOP_K THEN Cardinality(tier) ELSE TOP_K)
    /\ \A k \in 1..Len(names) : EntryOf(names[k]) \in tier
    /\ SortedDesc(names)
    /\ \A k \in 1..Len(names) : \A w \in tier :
          (\A l \in 1..Len(names) : names[l] # w.wallet) =>
              EntryOf(names[k]).volume_usdc >= w.volume_usdc

\* C21: the leader list a run writes holds at most TOP_K (10) wallets, the
\* TOP_K highest-volume wallets of the selected tier in descending order of
\* volume (leader_finder_v2 and leader_finder_v4).
C21_LeadersAreTopK ==
    /\ v2_out # NotRun => IsTopK(v2_out.leaders, TierOf(MeetsWhaleV2, MeetsTraderV2))
    /\ v4_out # NotRun => IsTopK(v4_out.leaders, TierOf(MeetsWhaleV4, MeetsTraderV4))

(***************************************************************************)
(* Claims about the order and the frame of a diff                          *)
(***************************************************************************)

\* C22: a diff returns the new trades in ascending timestamp order, oldest
\* unseen first, whatever the order in which the source supplied the batch
\* (copy_trader, leader_finder_v4 per wallet, trade_collector).
C22_DiffAscending ==
    \A c \in calls : \A k, l \in 1..Len(c.out) :
        k < l => TsNumeric(c.out[k]) <= TsNumeric(c.out[l])

\* the watermark the running script holds for key w
WatermarkOf(w) ==
    IF prog = "copy_trader" THEN Get(last_seen, w)
    ELSE IF prog = "v4" THEN Get(copied_file, w)
    ELSE IF w = GlobalKey THEN last_seen_ts ELSE 0

MaxTs(out) ==
    CHOOSE m \in {TsNumeric(out[k]) : k \in 1..Len(out)} :
        \A k \in 1..Len(out) : TsNumeric(out[k]) <= m

\* C23: in every run, a diff call for a wallet starts from the watermark the
\* wallet had before the run and leaves it at the maximum timestamp returned,
\* or where it was when nothing is returned; the watermark of a wallet for
\* which no diff was made is unchanged.
C23_WatermarkFrame ==
    [][calls = {} =>
         \A w \in Wallets \cup {GlobalKey} :
            LET cs == {c \in calls' : c.wallet = w}
            IN  /\ cs = {} => WatermarkOf(w)' = WatermarkOf(w)
                /\ \A c \in cs :
                      /\ c.before = WatermarkOf(w)
                      /\ c.after = WatermarkOf(w)'
                      /\ c.out # <<>> => c.after = MaxTs(c.out)
                      /\ c.out = <<>> => c.after = c.before]_vars

\* a run returned a trade for one wallet and none for another wallet whose
\* watermark was already above zero
C23_Witness ==
    \E c, d \in calls :
        /\ c.wallet # d.wallet
        /\ c.out # <<>> /\ c.before > 0
        /\ d.out = <<>> /\ d.before > 0 /\ d.batch # <<>>

(***************************************************************************)
(* Claims about the whale stage                                            *)
(***************************************************************************)

\* C24: the whale stage selects exactly the wallets whose volume, trade count
\* and number of distinct markets each reach the whale threshold (equality
\* included), whatever their categories, sorted in descending order of volume
\* (select_whales of leader_finder_v2, select_leaders of leader_finder_v4).
C24_WhaleStageExactSorted ==
    /\ v2_out # NotRun =>
          /\ {v2_out.whales[k].wallet : k \in 1..Len(v2_out.whales)} =
                {wallets[i].wallet : i \in {j \in 1..Len(wallets) : MeetsWhaleV2(wallets[j])}}
          /\ SortedDesc(NamesOf(v2_out.whales))
    /\ (v4_out # NotRun /\ v4_out.mode = "WHALES") =>
          /\ {v4_out.leaders[k] : k \in 1..Len(v4_out.leaders)} =
                {wallets[i].wallet : i \in {j \in 1..Len(wallets) : MeetsWhaleV4(wallets[j])}}
          /\ SortedDesc(v4_out.leaders)

(***************************************************************************)
(* Claims about the paginated fetch                                        *)
(***************************************************************************)

\* the instants (ms) of the records of a page that carry one
InstantsOf(page) ==
    {parse_trade_datetime_utc(page[k]).dt :
        k \in {j \in 1..Len(page) : parse_trade_datetime_utc(page[j]).ok}}

\* the oldest record of the page is below the cutoff
OldestBelowCutoff(page) == \E d \in InstantsOf(page) : d < CutoffUtc

\* the numbers of the pages one pass may request: 0 .. ceiling
PageNumbers == 0..(TRADES_MAX_OFFSET \div TRADES_LIMIT)

\* the records at or above the cutoff of the sorted pages 0..n, in page order
RECURSIVE RecentUpTo(_)
RecentUpTo(n) ==
    LET page == Page(feed, n * TRADES_LIMIT, TRUE)
        keep == SelectSeq(page, LAMBDA t :
                    \E d \in InstantsOf(<<t>>) : d >= CutoffUtc)
    IN  IF n = 0 THEN keep ELSE RecentUpTo(n - 1) \o keep

\* C25: with a source that honours the descending order, the fetch returns
\* exactly the records at or above the cutoff of the pages up to and including
\* the first page whose oldest record is below the cutoff, and requests no
\* page after that one.
C25_SortedFetchStopsAtCutoff ==
    (feed.sorts /\ \E n \in PageNumbers : OldestBelowCutoff(Page(feed, n * TRADES_LIMIT, TRUE))) =>
        LET stop == CHOOSE n \in PageNumbers :
                        /\ OldestBelowCutoff(Page(feed, n * TRADES_LIMIT, TRUE))
                        /\ \A m \in 0..(n - 1) :
                              ~OldestBelowCutoff(Page(feed, m * TRADES_LIMIT, TRUE))
        IN  /\ use_sort
            /\ offset <= stop * TRADES_LIMIT
            /\ pc_fetch \in {"done", "reported"} =>
                  /\ offset = stop * TRADES_LIMIT
                  /\ collected = RecentUpTo(stop)

\* the fetch of a sorted source ended on its third page, having kept the
\* record made exactly at the cutoff and dropped the older one next to it
C25_Witness ==
    /\ feed.sorts
    /\ pc_fetch = "done"
    /\ offset = 2 * TRADES_LIMIT
    /\ OldestBelowCutoff(Page(feed, offset, TRUE))
    /\ \E k \in 1..Len(collected) :
          parse_trade_datetime_utc(collected[k]).dt = CutoffUtc

\* page 0 of the ordered request holds a record below the cutoff that is
\* older than a record after it: the descending order is not honoured
PageZeroOutOfOrder ==
    LET p0 == Page(feed, 0, TRUE)
    IN  \E i, j \in 1..Len(p0) :
            /\ i < j
            /\ \E a \in InstantsOf(<<p0[i]>>) : \E b \in InstantsOf(<<p0[j]>>) :
                  a < b /\ a < CutoffUtc

\* the records at or above the cutoff of the pages 0..n of the unordered scan
RECURSIVE RecentUnorderedUpTo(_)
RecentUnorderedUpTo(n) ==
    LET page == Page(feed, n * TRADES_LIMIT, FALSE)
        keep == SelectSeq(page, LAMBDA t :
                    \E d \in InstantsOf(<<t>>) : d >= CutoffUtc)
    IN  IF n = 0 THEN keep ELSE RecentUnorderedUpTo(n - 1) \o keep

\* C26: whenever page 0 of the ordered request shows that the descending
\* order is not honoured, the fetch falls back to the unordered scan and ends
\* with every record at or above the cutoff of every page, instead of stopping
\* after page 0.
C26_FallbackWhenUnordered ==
    (PageZeroOutOfOrder /\ pc_fetch \in {"done", "reported"}) =>
        /\ ~use_sort
        /\ collected = RecentUnorderedUpTo(TRADES_MAX_OFFSET \div TRADES_LIMIT)

\* what is left of the fetch: the passes still possible, then the pages
\* still possible in this pass
FetchRank ==
    (IF use_sort THEN Cardinality(PageNumbers) + 1 ELSE 0)
        + (Cardinality(PageNumbers) - offset \div TRADES_LIMIT)

\* C27: the paginated fetch terminates whatever the pages hold: while the
\* loop runs the offset is a page offset within the ceiling, the sorted mode
\* is never entered again once left, every request that keeps the loop going
\* uses up a page of the pass or the one restart, and the loop ends.
C27_FetchTerminates ==
    /\ [](pc_fetch = "loop" =>
            /\ offset \in {n * TRADES_LIMIT : n \in PageNumbers}
            /\ FetchRank > 0)
    /\ [][(~use_sort => ~use_sort')
          /\ ((pc_fetch = "loop" /\ pc_fetch' = "loop" /\ feed' = feed) =>
                FetchRank' < FetchRank)]_vars
    /\ <>(pc_fetch # "loop")

\* the unordered scan, entered by the one restart, was ended by the ceiling
\* after a full last page
C27_Witness ==
    /\ pc_fetch = "done"
    /\ ~use_sort
    /\ offset > TRADES_MAX_OFFSET
    /\ Len(collected) > TRADES_MAX_OFFSET - TRADES_LIMIT

(***************************************************************************)
(* Claims about the unit of a timestamp                                    *)
(***************************************************************************)

\* C28: every ingestion path reads an integer timestamp below the threshold
\* as seconds and one at or above it as milliseconds: for every record of the
\* log with a timestamp, the batch reader (leader_finder_v3 / v4) keeps it
\* exactly when the instant the poll adapter (leader_finder_v2) gives it is
\* within the window of the run, and copy_trader gives it the same instant.
C28_SameInstantEverywhere ==
    (win # NotRead /\ "trades" \in DOMAIN win) =>
        \A i \in 1..Len(log) :
            (IsJson(log[i]) /\ "timestamp" \in DOMAIN log[i].json
                            /\ log[i].json.timestamp # 0) =>
                LET t == log[i].json
                IN  /\ (\E k \in 1..Len(win.trades) : win.trades[k] = t)
                          <=> (parse_trade_datetime_utc(t).dt
                                  >= win.nowMs - WINDOW_24H * 1000)
                    /\ format_ts_italian(t.timestamp) = parse_trade_datetime_utc(t).dt

(***************************************************************************)
(* Claims about the deduplicator                                           *)
(***************************************************************************)

\* C29: after any sequence of insertions the deduplicator tracks at most
\* dedup_max identities, and its lookup set holds exactly the identities of
\* its deque
C29_SetMatchesRing ==
    /\ Len(seen_dq) <= DedupMax
    /\ Cardinality(seen_set) <= DedupMax
    /\ seen_set = {seen_dq[i] : i \in 1..Len(seen_dq)}

\* the deduplicator is full, has evicted an identity, and has just rejected
\* a duplicate
C29_Witness ==
    /\ Len(seen_dq) = DedupMax
    /\ Len(log) - run_from > DedupMax
    /\ last_msg.result = "duplicate"

\* the identities dropped from the lookup set by a step
Evicted == seen_set \ seen_set'

\* C30: an accepted identity evicts, when the deduplicator is at capacity,
\* exactly the identity inserted earliest (the one written to the log
\* dedup_max accepted trades ago, at the head of the deque), a sighting of a
\* tracked identity changing nothing; below capacity nothing is evicted, and
\* a rejected duplicate evicts nothing
C30_EvictsEarliest ==
    [][(run_from' = run_from /\ last_msg'.result \in {"written", "duplicate"}) =>
          IF last_msg'.result = "duplicate"
          THEN Evicted = {} /\ seen_dq' = seen_dq /\ seen_set' = seen_set
          ELSE IF Len(seen_dq) = DedupMax
          THEN /\ Evicted = {make_dedup_token(log[Len(log) - DedupMax + 1].json)}
               /\ Evicted = {Head(seen_dq)}
               /\ seen_dq' = Append(Tail(seen_dq), make_dedup_token(last_msg'.rec))
          ELSE /\ Evicted = {}
               /\ seen_dq' = Append(seen_dq, make_dedup_token(last_msg'.rec))]_vars

\* a trade was accepted at capacity: the identity written dedup_max accepted
\* trades before it is no longer tracked, the ones after it are
C30_Witness ==
    /\ last_msg.result = "written"
    /\ Len(seen_dq) = DedupMax
    /\ Len(log) - run_from > DedupMax
    /\ make_dedup_token(log[Len(log) - DedupMax].json) \notin seen_set
    /\ \A i \in (Len(log) - DedupMax + 1)..Len(log) :
          make_dedup_token(log[i].json) \in seen_set

(***************************************************************************)
(* Claims about the frames of the real-time collector                      *)
(***************************************************************************)

\* a frame that is JSON, of topic "activity" and type "trades", with an
\* object payload
IsTradeFrame(m) ==
    /\ IsJson(m)
    /\ "topic" \in DOMAIN m.json /\ m.json.topic = "activity"
    /\ "type" \in DOMAIN m.json /\ m.json.type = "trades"
    /\ "payload" \in DOMAIN m.json

C32_ReconnectWithBackoff ==
    /\ [](backoff >= reconnect_min_s /\ backoff <= reconnect_max_s)
    /\ [](waited = 0 => backoff = reconnect_min_s)
    /\ [](c_pc = "running" => (connected /\ sent = <<build_subscribe_payload>>))
    /\ [][/\ (c_pc = "ended" /\ ~stop_requested) => c_pc' \in {"ended", "sleep"}
          /\ (c_pc = "sleep") => (c_pc' = "sleep" \/
                 (/\ waited' = backoff
                  /\ backoff' = IF 2 * backoff <= reconnect_max_s
                                THEN 2 * backoff ELSE reconnect_max_s))
          /\ (c_pc # "sleep") => (backoff' = backoff /\ waited' = waited)]_vars
    /\ ((c_pc = "ended" /\ ~stop_requested) ~> (stop_requested \/ c_pc = "connect"))

\* the collector has waited 32 s after its sixth disconnect, the backoff has
\* reached reconnect_max, and the subscription was sent on the connection
\* that is open now
C32_Witness ==
    /\ c_pc = "running"
    /\ ~stop_requested
    /\ waited = 32
    /\ backoff = reconnect_max_s
    /\ sent = <<build_subscribe_payload>>

\* C38: once a stop has been requested the collector opens no new
\* connection, and run_forever() eventually returns, wherever the main
\* thread stood when the flag was set
C38_StopEndsLoop ==
    /\ [][(c_pc = "connect" /\ c_pc' # "connect") => ~stop_requested]_vars
    /\ (stop_requested ~> (c_pc = "returned"))

(***************************************************************************)
(* Claims about the log read while it is written                           *)
(***************************************************************************)

\* the lines of the file that are there to their end
RECURSIVE WholeLines(_)
WholeLines(lines) ==
    IF lines = <<>> THEN <<>>
    ELSE IF IsTorn(Head(lines)) THEN WholeLines(Tail(lines))
    ELSE <<Head(lines)>> \o WholeLines(Tail(lines))

\* C33: a run of leader_finder_v4 that reads the log while the collector
\* appends to it never fails because of an append, and what it aggregates is
\* the window of the file as it was at one instant: the records within the
\* window among the lines wholly written at that instant, the file at an
\* earlier instant being a prefix of the file now; the stats are those of
\* these records
C33_ConsistentSnapshot ==
    /\ rd.pc # "failed"
    /\ rd.pc = "done" =>
          /\ \E k \in 0..Len(log) :
                rd.trades = load_recent_trades_v4(WholeLines(SubSeq(log, 1, k)), rd.nowMs)
          /\ rd.stats = aggregate(rd.trades, <<>>)

(***************************************************************************)
(* Claims about the copy candidates of leader_finder_v4                    *)
(***************************************************************************)

\* C34: every candidate of a v4 run is a trade of a selected leader, not
\* older than 15 minutes at the time of the run, and above the leader's
\* copied watermark as it is when the trade is examined (the stored one for
\* the leader's first candidate, the previous candidate after that); the
\* watermark of a leader with candidates becomes the timestamp of its last
\* candidate, and no other watermark is modified
C34_CandidatesRecentAndNew ==
    [][(prog = "v4" /\ calls = {}) =>
          /\ \A c \in calls' :
                /\ \A k \in 1..Len(c.out) :
                      /\ c.out[k].proxyWallet = c.wallet
                      /\ c.out[k].timestamp >= c.now - WINDOW_15M * 1000
                      /\ c.out[k].timestamp >
                            (IF k = 1 THEN c.before ELSE c.out[k - 1].timestamp)
                /\ c.after = IF c.out = <<>> THEN c.before
                             ELSE c.out[Len(c.out)].timestamp
                /\ Get(copied_file', c.wallet) = c.after
          /\ \A i \in WMIds :
                emitCnt'[i] # emitCnt[i] =>
                    \E c \in calls' : \E k \in 1..Len(c.out) : c.out[k].id = i
          /\ \A w \in Wallets :
                (\A c \in calls' : c.wallet = w => c.out = <<>>) =>
                    Get(copied_file', w) = Get(copied_file, w)]_vars

\* a run with both wallets as leaders has taken a trade of 0xb as candidate
\* and passed over a trade of 0xa that is older than 15 minutes and above the
\* watermark of 0xa, which it left as it was
C34_Witness ==
    /\ prog = "v4"
    /\ \E c, d \in calls :
          /\ c.wallet = "0xa" /\ d.wallet = "0xb"
          /\ Len(d.out) = 1
          /\ c.out = <<>> /\ c.after = c.before
          /\ \E k \in 1..Len(c.batch) :
                /\ c.batch[k].timestamp > c.before
                /\ c.batch[k].timestamp < c.now - WINDOW_15M * 1000

(***************************************************************************)
(* Claims about failures between the diff and the log                      *)
(***************************************************************************)

\* C35: every identity the deduplicator of the running collector tracks has
\* its record in the log, written by this run; a trade whose append failed
\* is not tracked, so that it is logged when it is delivered again
C35_AcceptedIsLogged ==
    /\ \A token \in seen_set :
          \E i \in (run_from + 1)..Len(log) : make_dedup_token(log[i].json) = token
    /\ last_msg.result = "duplicate" =>
          \E i \in (run_from + 1)..Len(log) :
              make_dedup_token(log[i].json) = make_dedup_token(last_msg.rec)

\* C36: in trade_collector.py last_seen_ts advances only past trades that
\* were appended to the log: every trade of a response above the watermark
\* the poll started from and not above the one it ends with was written by
\* that poll, so that a batch whose append failed is returned again
C36_WatermarkBehindLog ==
    [][(prog = "collector" /\ calls = {}) =>
          \A c \in calls' :
              /\ last_seen_ts' = c.after
              /\ \A k \in 1..Len(c.batch) :
                    (TsNumeric(c.batch[k]) > c.before /\ TsNumeric(c.batch[k]) <= c.after)
                        => \E j \in 1..Len(c.out) : c.out[j] = c.batch[k]]_vars

\* C37: whatever fetch_trades() answers for the leaders in a pass of the
\* copy trader started now, a leader whose fetch fails has no diff made and
\* nothing emitted, and its watermark is the one it had before the pass,
\* while every leader whose fetch succeeds has its trades processed in that
\* same pass and its watermark set by them
C37_FailedFetchSkipsLeaderOnly ==
    (prog = "copy_trader" /\ calls = {}) =>
        \A fetched \in [Range(LEADERS) -> UNION {FetchAnswers(l) : l \in Range(LEADERS)}] :
            (\A l \in Range(LEADERS) : fetched[l] \in FetchAnswers(l)) =>
                LET r == CTPass([mem |-> last_seen, file |-> state_file, calls |-> {}],
                                1, Len(LEADERS), fetched)
                IN  \A j \in 1..Len(LEADERS) :
                        LET la == Lower(LEADERS[j])
                            f  == fetched[LEADERS[j]]
                        IN  IF ~f.ok
                            THEN /\ \A c \in r.calls : c.wallet # la
                                 /\ Get(r.mem, la) = Get(last_seen, la)
                            ELSE \E c \in r.calls :
                                    /\ c.wallet = la
                                    /\ c.batch = f.trades
                                    /\ c.before = Get(last_seen, la)
                                    /\ Get(r.mem, la) = c.after

\* in a pass the fetch of 0xA failed: no diff was made for it and its
\* watermark is still the one an earlier pass had set, while the new trade
\* of 0xb was emitted
C37_Witness ==
    /\ prog = "copy_trader"
    /\ \A c \in calls : c.wallet # "0xa"
    /\ \E c \in calls : c.wallet = "0xb" /\ Len(c.out) = 1
    /\ Get(last_seen, "0xa") > 0

(***************************************************************************)
(* Claims about add_if_new called from two threads                         *)
(***************************************************************************)

\* C39: whenever no thread is inside the locked block, the deque holds at
\* most dedup_max tokens, each once, and the set holds exactly these; and of
\* two calls of add_if_new() with the same token that were in progress at
\* the same time, the token not being tracked when the first of them was
\* made, exactly one returned True
C39_ThreadSafe ==
    /\ lock = "free" =>
          /\ Len(seen_dq) <= DedupMax
          /\ seen_set = {seen_dq[i] : i \in 1..Len(seen_dq)}
          /\ Cardinality(seen_set) = Len(seen_dq)
    /\ \A t, u \in ThreadIds :
          (/\ t # u
           /\ thr[t].pc = "returned" /\ thr[u].pc = "returned"
           /\ thr[t].token = thr[u].token
           /\ u \in thr[t].during
           /\ ~thr[t].seen) =>
              (thr[t].ret # thr[u].ret)

\* the deduplicator was full; both threads offered the same new token at
\* the same time, neither seeing it tracked when it called, and both have
\* returned
C39_Witness ==
    /\ Len(seen_dq) = DedupMax
    /\ thr["t1"].pc = "returned" /\ thr["t2"].pc = "returned"
    /\ thr["t1"].token = thr["t2"].token
    /\ "t2" \in thr["t1"].during
    /\ ~thr["t1"].seen /\ ~thr["t2"].seen
    /\ thr["t1"].ret /\ ~thr["t2"].ret
    /\ \E i \in 1..Len(seen_dq) : seen_dq[i] # thr["t1"].token

====
